---- MODULE Spec2Model ----
(***************************************************************************)
(* A model of the office game: the Combat effect manager (Combat.js), the  *)
(* Player movement/physics integrator (Player.js) and the Game loop that   *)
(* drives them (Game.js).                                                  *)
(*                                                                         *)
(* Units.  Lengths and velocities are fixed-point integers, 1600 to the    *)
(* world unit (so 0.05 = 80, 0.8 = 1280, and a unit vector can be halved   *)
(* six times without rounding).  Times are milliseconds.  Stamina is in    *)
(* tenths of a point (100 = 1000).  Challenge countdowns and deltaTime are  *)
(* in milliseconds (30 s = 30000).                                         *)
(***************************************************************************)
EXTENDS Integers, Sequences, FiniteSets, TLC

VARIABLES
    now,        \* the wall clock read by Date.now(), in ms
    nextId,     \* the id the next THREE.Object3D created will get
    scene,      \* ids of the effect meshes currently added to the scene
    combat,     \* the Combat object
    player,     \* the Player object
    game,       \* the Game object
    lastOp      \* history: the last operation executed and what it returned

vars == <<now, nextId, scene, combat, player, game, lastOp>>

-----------------------------------------------------------------------------
(* Bounds of the model *)

MaxTime == 3000
MaxMeshId == 7
MaxLevel == 1
MinStamina == 200

\* the player's ticks stay within these horizontal and vertical distances
MaxCoord == 240

MaxHeight == 1840

\* in ghost mode the player is followed this far through walls and below y = 0
MaxFly == 480

\* the stamina ticks are followed once stamina is at most this (in tenths)
MaxTickStamina == 200

\* how many meshes a loaded scene has
MaxNodes == 2

\* how many loads are in flight, and how many listeners wait for one
MaxLoads == 2

\* how many ticks an idle player is followed for
MaxIdleTicks == 32

\* how far from the origin the player walks along z
MaxWalk == 1200

MaxPauseMeshId == 1

MaxFrameTime == 320

MaxRooms == 2

MaxRankLevel == 100

MaxCeilingWalk == 80

\* how far from the start the resting player walks or flies
MaxRestWalk == 160

\* fixed-point resolution: model units per world unit
U == 16 * 100

-----------------------------------------------------------------------------
(* Vector helpers (THREE.Vector3) *)

Abs(x) == IF x < 0 THEN 0 - x ELSE x

Min(a, b) == IF a < b THEN a ELSE b

Max(a, b) == IF a > b THEN a ELSE b

VAdd(a, b) == <<a[1] + b[1], a[2] + b[2], a[3] + b[3]>>

VSub(a, b) == <<a[1] - b[1], a[2] - b[2], a[3] - b[3]>>

Dot(a, b) == a[1] * b[1] + a[2] * b[2] + a[3] * b[3]

\* v.multiplyScalar(num/den)
VScale(v, num, den) == <<(v[1] * num) \div den, (v[2] * num) \div den, (v[3] * num) \div den>>

RECURSIVE IsqrtIter(_, _, _)
IsqrtIter(n, lo, hi) ==
    IF lo >= hi THEN lo
    ELSE LET mid == (lo + hi + 1) \div 2
         IN  IF mid * mid <= n THEN IsqrtIter(n, mid, hi)
                               ELSE IsqrtIter(n, lo, mid - 1)

Isqrt(n) == IsqrtIter(n, 0, 46340)

VLength(v) == Isqrt(v[1] * v[1] + v[2] * v[2] + v[3] * v[3])

\* v.normalize() is v.divideScalar(v.length() || 1)
VNormalize(v) ==
    LET len == VLength(v)
    IN  IF len = 0 THEN v ELSE VScale(v, U, len)

-----------------------------------------------------------------------------
(* Combat.js: settings *)

projectileSpeedTenths == 5
projectileLifetime == 2000
stampDuration == 1000
maxProjectiles == 5
maxStamps == 3
chestHeight == 2400

\* JavaScript values that are not numbers
Undefined == [kind |-> "undefined", val |-> 0]
NaN == [kind |-> "NaN", val |-> 0]
Num(n) == [kind |-> "number", val |-> n]

\* a - b on JavaScript values: anything but two numbers gives NaN
JsSub(a, b) == IF a.kind = "number" /\ b.kind = "number" THEN Num(a.val - b.val) ELSE NaN

\* a <= 0 on a JavaScript value: false for NaN
JsLeqZero(a) == a.kind = "number" /\ a.val <= 0

NoChallenge == [isNull |-> TRUE, difficulty |-> 0, complexity |-> 0, timeRemaining |-> Num(0), reward |-> 0]

CombatInit ==
    [activeProjectiles |-> <<>>,
     activeStamps |-> <<>>,
     combatActive |-> FALSE,
     activeChallenge |-> NoChallenge,
     challengeLevel |-> 1]

\* The state all the methods work on: one record of the object graph.
St == [now |-> now, nextId |-> nextId, scene |-> scene, combat |-> combat,
       player |-> player, game |-> game]

Result(s, r) == [s |-> s, ret |-> r]

startCombat(s) == [s EXCEPT !.combat.combatActive = TRUE]

clearProjectiles(s) ==
    [s EXCEPT !.scene = @ \ {s.combat.activeProjectiles[i].id : i \in DOMAIN s.combat.activeProjectiles},
              !.combat.activeProjectiles = <<>>]

\* mutant: the array is reset but the meshes stay in the scene
clearStamps_KeepsMeshes(s) == [s EXCEPT !.combat.activeStamps = <<>>]

clearStamps(s) ==
    [s EXCEPT !.scene = @ \ {s.combat.activeStamps[i].id : i \in DOMAIN s.combat.activeStamps},
              !.combat.activeStamps = <<>>]

\* mutant: combat ends with its effects left alive
endCombat_KeepsEffects(s) == [s EXCEPT !.combat.combatActive = FALSE]

endCombat(s) ==
    clearStamps(clearProjectiles([s EXCEPT !.combat.combatActive = FALSE]))

\* mutants of the spawn guard: an off-by-one cap, and a missing activity check
throwDocumentRejected_OffByOne(s) ==
    ~s.combat.combatActive \/ Len(s.combat.activeProjectiles) > maxProjectiles

throwDocumentRejected_NoActiveCheck(s) ==
    Len(s.combat.activeProjectiles) >= maxProjectiles

throwDocumentRejected(s) ==
    ~s.combat.combatActive \/ Len(s.combat.activeProjectiles) >= maxProjectiles

\* this.createProjectile(), placed at chest height and aimed at the target
newProjectile(s, position, target) ==
    [id |-> s.nextId, position |-> position,
     direction |-> VNormalize(VSub(target, position)), creationTime |-> s.now]

throwDocument(s, target) ==
    IF throwDocumentRejected(s) THEN Result(s, "false")
    ELSE Result([s EXCEPT !.nextId = @ + 1,
                          !.scene = @ \cup {s.nextId},
                          !.combat.activeProjectiles =
                              Append(@, newProjectile(s, VAdd(s.player.mesh, <<0, chestHeight, 0>>), target))],
                "true")

useStampRejected(s) ==
    ~s.combat.combatActive \/ Len(s.combat.activeStamps) >= maxStamps

useStamp(s, position) ==
    IF useStampRejected(s) THEN Result(s, "false")
    ELSE Result([s EXCEPT !.nextId = @ + 1,
                          !.scene = @ \cup {s.nextId},
                          !.combat.activeStamps =
                              Append(@, [id |-> s.nextId, position |-> position, creationTime |-> s.now])],
                "true")

\* index of the first element of seq with this id, 0 if none (Array.indexOf + 1)
RECURSIVE IndexOfFrom(_, _, _)
IndexOfFrom(seq, id, i) ==
    IF i > Len(seq) THEN 0
    ELSE IF seq[i].id = id THEN i ELSE IndexOfFrom(seq, id, i + 1)

IndexOf(seq, id) == IndexOfFrom(seq, id, 1)

\* Array.splice(index, 1)
Splice(seq, i) == SubSeq(seq, 1, i - 1) \o SubSeq(seq, i + 1, Len(seq))

removeProjectile(s, id) ==
    LET index == IndexOf(s.combat.activeProjectiles, id)
    IN  IF index > 0
        THEN [s EXCEPT !.combat.activeProjectiles = Splice(@, index),
                       !.scene = @ \ {id}]
        ELSE s

removeStamp(s, id) ==
    LET index == IndexOf(s.combat.activeStamps, id)
    IN  IF index > 0
        THEN [s EXCEPT !.combat.activeStamps = Splice(@, index),
                       !.scene = @ \ {id}]
        ELSE s

\* direction.multiplyScalar(speed) scales the stored direction in place and
\* returns it; position.add() then adds the scaled vector.
moveProjectile(p) ==
    LET scaled == VScale(p.direction, projectileSpeedTenths, 10)
    IN  [p EXCEPT !.direction = scaled, !.position = VAdd(@, scaled)]

projectileExpired(s, p) == s.now - p.creationTime > projectileLifetime

\* mutant: the stamp check copies the projectile's lifetime
stampExpired_WrongDuration(s, st) == s.now - st.creationTime > projectileLifetime

stampExpired(s, st) == s.now - st.creationTime > stampDuration

\* for (i = length - 1; i >= 0; i--)
\* one iteration of the loop body: move projectile i, then check its lifetime
updateProjectileAt(s, i) ==
    IF projectileExpired(s, s.combat.activeProjectiles[i])
    THEN removeProjectile([s EXCEPT !.combat.activeProjectiles[i] = moveProjectile(@)],
                          s.combat.activeProjectiles[i].id)
    ELSE [s EXCEPT !.combat.activeProjectiles[i] = moveProjectile(@)]

RECURSIVE updateProjectilesFrom(_, _)
updateProjectilesFrom(s, i) ==
    IF i < 1 THEN s
    ELSE updateProjectilesFrom(updateProjectileAt(s, i), i - 1)

updateProjectiles(s) == updateProjectilesFrom(s, Len(s.combat.activeProjectiles))

updateStampAt(s, i) ==
    IF stampExpired(s, s.combat.activeStamps[i])
    THEN removeStamp(s, s.combat.activeStamps[i].id)
    ELSE s

RECURSIVE updateStampsFrom(_, _)
updateStampsFrom(s, i) ==
    IF i < 1 THEN s
    ELSE updateStampsFrom(updateStampAt(s, i), i - 1)

updateStamps(s) == updateStampsFrom(s, Len(s.combat.activeStamps))

difficultyCount == 5

createChallenge(s, random) ==
    LET difficulty == Min(s.player.bureaucracyLevel \div 5, difficultyCount - 1)
    IN  [s EXCEPT !.combat.activeChallenge =
            [isNull |-> FALSE,
             difficulty |-> difficulty,
             complexity |-> random + 1 + difficulty,
             timeRemaining |-> Num((30 + difficulty * 10) * 1000),
             reward |-> (difficulty + 1) * 10]]

combatRanks ==
    <<"Intern", "Junior Clerk", "Clerk", "Senior Clerk", "Assistant Manager",
      "Deputy Manager", "Manager", "Senior Manager", "Director", "Executive Director">>

\* ranks.indexOf(rank), 0-based, -1 when absent
RECURSIVE RankIndexFrom(_, _, _)
RankIndexFrom(ranks, rank, i) ==
    IF i > Len(ranks) THEN 0 - 1
    ELSE IF ranks[i] = rank THEN i - 1 ELSE RankIndexFrom(ranks, rank, i + 1)

RankIndex(ranks, rank) == RankIndexFrom(ranks, rank, 1)

promotePlayer(s) ==
    LET currentRankIndex == RankIndex(combatRanks, s.player.careerRank)
    IN  IF currentRankIndex < Len(combatRanks) - 1
        THEN [s EXCEPT !.player.careerRank = combatRanks[currentRankIndex + 2]]
        ELSE s

challengePenalty == 100

\* "Maybe promotion"
maybePromote(s) ==
    IF s.player.bureaucracyLevel % 10 = 0 THEN promotePlayer(s) ELSE s

\* the success branch and the failure branch of resolveChallenge
challengeOutcome(s, success) ==
    IF success
    THEN maybePromote([s EXCEPT !.player.influence = @ + s.combat.activeChallenge.reward,
                                !.player.bureaucracyLevel = @ + 1])
    ELSE [s EXCEPT !.player.bureaucraticStamina = @ - challengePenalty]

resolveChallenge(s, success) ==
    IF s.combat.activeChallenge.isNull THEN s
    ELSE [challengeOutcome(s, success) EXCEPT !.combat.activeChallenge = NoChallenge]

\* Combat.update(deltaTime); deltaTime is a JavaScript value
\* the timeout test after the countdown was decremented
checkCountdown(s) ==
    IF JsLeqZero(s.combat.activeChallenge.timeRemaining)
    THEN resolveChallenge(s, FALSE)
    ELSE s

\* "Update active challenge if there is one"
updateChallenge(s, deltaTime) ==
    IF s.combat.activeChallenge.isNull THEN s
    ELSE checkCountdown([s EXCEPT !.combat.activeChallenge.timeRemaining = JsSub(@, deltaTime)])

combatUpdate(s, deltaTime) ==
    IF ~s.combat.combatActive THEN s
    ELSE updateChallenge(updateStamps(updateProjectiles(s)), deltaTime)

-----------------------------------------------------------------------------
(* Collidable meshes and THREE.Raycaster                                    *)
(*                                                                         *)
(* A mesh is a list of axis-aligned rectangular faces.  A face lies in the *)
(* plane  p[axis] = coord,  spans lo..hi on the other two axes, and has    *)
(* the world-space normal `normal`.  A ray hits a face from its front side *)
(* only, unless the mesh's material is double-sided.  Ray directions are   *)
(* the ones the player casts: the axes and the four horizontal diagonals,  *)
(* written with components in {-1, 0, 1}.                                  *)

\* a face in the plane through p0 with the direction n of its normal, within
\* the box from lo to hi; normal is the unit normal
Face(axis, coord, sign, lo, hi) ==
    [n |-> [k \in 1..3 |-> IF k = axis THEN sign ELSE 0],
     p0 |-> [lo EXCEPT ![axis] = coord],
     lo |-> [lo EXCEPT ![axis] = coord], hi |-> [hi EXCEPT ![axis] = coord],
     normal |-> [k \in 1..3 |-> IF k = axis THEN sign * U ELSE 0]]

\* THREE.BoxGeometry with the corners lo and hi, all faces pointing outwards
BoxMesh(id, name, lo, hi) ==
    [id |-> id, name |-> name, doubleSided |-> FALSE,
     faces |-> <<Face(2, hi[2], 1, lo, hi), Face(2, lo[2], 0 - 1, lo, hi),
                 Face(1, hi[1], 1, lo, hi), Face(1, lo[1], 0 - 1, lo, hi),
                 Face(3, hi[3], 1, lo, hi), Face(3, lo[3], 0 - 1, lo, hi)>>]

\* THREE.PlaneGeometry rotated into the plane p[axis] = coord
PlaneMesh(id, name, axis, coord, sign, lo, hi, doubleSided) ==
    [id |-> id, name |-> name, doubleSided |-> doubleSided,
     faces |-> <<Face(axis, coord, sign, lo, hi)>>]

\* a plane mesh tilted by 45 degrees about x, through p0 and rising towards -z:
\* its unit normal is (0, 1, 1) / sqrt(2)
SlopeMesh(id, name, p0, lo, hi) ==
    [id |-> id, name |-> name, doubleSided |-> FALSE,
     faces |-> <<[n |-> <<0, 1, 1>>, p0 |-> p0, lo |-> lo, hi |-> hi,
                  normal |-> <<0, Isqrt((U * U) \div 2), Isqrt((U * U) \div 2)>>]>>]

IsDiagonal(dir) == dir[1] # 0 /\ dir[3] # 0

\* Is a hit t steps along dir within distance limit (the distance is Euclidean)
DistanceLeq(dir, t, limit) ==
    IF IsDiagonal(dir) THEN 2 * t * t <= limit * limit ELSE t <= limit

DistanceLess(dir, t, limit) ==
    IF IsDiagonal(dir) THEN 2 * t * t < limit * limit ELSE t < limit

Distance(dir, t) == IF IsDiagonal(dir) THEN Isqrt(2 * t * t) ELSE t

\* Ray.intersectTriangle on the two triangles of a face: the steps t >= 0 along
\* dir at which the ray from origin meets the face, or -1
FaceHit(origin, dir, face, doubleSided) ==
    LET denominator == Dot(face.n, dir)
        numerator == Dot(face.n, VSub(face.p0, origin))
    IN  IF denominator = 0 THEN 0 - 1
        ELSE IF ~doubleSided /\ denominator > 0 THEN 0 - 1
        ELSE LET t == IF denominator > 0 THEN numerator \div denominator
                      ELSE (0 - numerator) \div (0 - denominator)
                 p == [k \in 1..3 |-> origin[k] + t * dir[k]]
             IN  IF t >= 0 /\ \A k \in 1..3 : face.lo[k] <= p[k] /\ p[k] <= face.hi[k]
                 THEN t ELSE 0 - 1

NoHit == [hit |-> FALSE, t |-> 0, order |-> 0, id |-> 0, name |-> "", normal |-> <<0, 0, 0>>, point |-> <<0, 0, 0>>]

\* all the intersections of the ray with the meshes, within far
RayHits(meshes, origin, dir, far) ==
    {h \in UNION {{ LET t == FaceHit(origin, dir, meshes[i].faces[j], meshes[i].doubleSided)
                    IN  [hit |-> t >= 0 /\ DistanceLeq(dir, t, far), t |-> t,
                         order |-> i * 100 + j,
                         id |-> meshes[i].id, name |-> meshes[i].name,
                         normal |-> meshes[i].faces[j].normal,
                         point |-> [k \in 1..3 |-> origin[k] + t * dir[k]]]
                    : j \in DOMAIN meshes[i].faces} : i \in DOMAIN meshes} : h.hit}

\* raycaster.intersectObjects(meshes, true)[0]: the nearest intersection
Nearest(hits) ==
    IF hits = {} THEN NoHit
    ELSE CHOOSE h \in hits : \A g \in hits : h.t < g.t \/ (h.t = g.t /\ h.order <= g.order)

Raycast(meshes, origin, dir, far) == Nearest(RayHits(meshes, origin, dir, far))

-----------------------------------------------------------------------------
(* Player.js: settings, in model units *)

staminaMax == 1000
moveSpeed == 80
runSpeedMultiplierTenths == 15
jumpStrength == 560
gravity == 16
collisionRadius == 320
playerHeight == 2880
eyeHeight == 1280
stepHeight == 400
slopeLimitTenths == 8
frictionPercent == 85
ghostMoveSpeed == 240
floatSpeed == 160
drainRate == 5
regenRate == 1
documentCost == 200
stampCost == 150
promotionInfluence == 20

NoKeys == [forward |-> FALSE, backward |-> FALSE, left |-> FALSE, right |-> FALSE,
           run |-> FALSE, jump |-> FALSE]

\* new Player(scene): the camera looks down -z
PlayerInit(collidables) ==
    [bureaucraticStamina |-> staminaMax,
     careerRank |-> "Intern",
     influence |-> 0,
     bureaucracyLevel |-> 0,
     velocity |-> <<0, 0, 0>>,
     isOnGround |-> TRUE,
     collidableObjects |-> collidables,
     lastGroundY |-> 0,
     ghostMode |-> FALSE,
     floatUp |-> FALSE,
     floatDown |-> FALSE,
     activeCollisions |-> <<>>,
     moveDirection |-> <<0, 0, 0>>,
     isMoving |-> FALSE,
     isRunning |-> FALSE,
     isJumping |-> FALSE,
     mesh |-> <<0, playerHeight \div 2, 0>>,
     position |-> <<0, eyeHeight, 0>>,
     cameraForward |-> <<0, 0, 0 - U>>,
     keys |-> NoKeys]


\* a.crossVectors(a, b) on fixed-point vectors
Cross(a, b) ==
    <<(a[2] * b[3] - a[3] * b[2]) \div U,
      (a[3] * b[1] - a[1] * b[3]) \div U,
      (a[1] * b[2] - a[2] * b[1]) \div U>>

keyDown(p, code) ==
    CASE code = "KeyW" -> [p EXCEPT !.keys.forward = TRUE]
      [] code = "KeyS" -> [p EXCEPT !.keys.backward = TRUE]
      [] code = "KeyA" -> [p EXCEPT !.keys.left = TRUE]
      [] code = "KeyD" -> [p EXCEPT !.keys.right = TRUE]
      [] code \in {"ShiftLeft", "ShiftRight"} -> [p EXCEPT !.keys.run = TRUE]
      [] code = "Space" -> IF p.isOnGround \/ p.ghostMode THEN [p EXCEPT !.keys.jump = TRUE] ELSE p
      [] code = "KeyE" -> [p EXCEPT !.floatUp = TRUE]
      [] code = "KeyQ" -> [p EXCEPT !.floatDown = TRUE]
      [] OTHER -> p

keyUp(p, code) ==
    CASE code = "KeyW" -> [p EXCEPT !.keys.forward = FALSE]
      [] code = "KeyS" -> [p EXCEPT !.keys.backward = FALSE]
      [] code = "KeyA" -> [p EXCEPT !.keys.left = FALSE]
      [] code = "KeyD" -> [p EXCEPT !.keys.right = FALSE]
      [] code \in {"ShiftLeft", "ShiftRight"} -> [p EXCEPT !.keys.run = FALSE]
      [] code = "Space" -> [p EXCEPT !.keys.jump = FALSE]
      [] code = "KeyE" -> [p EXCEPT !.floatUp = FALSE]
      [] code = "KeyQ" -> [p EXCEPT !.floatDown = FALSE]
      [] OTHER -> p

\* the vertical velocity the float keys give in ghost mode
ghostVerticalVelocity(p) ==
    IF p.floatUp THEN floatSpeed
    ELSE IF p.floatDown THEN 0 - floatSpeed
    ELSE 0

\* mutant: the jump starts without leaving the ground state
applyJump_StaysGrounded(p) ==
    IF p.keys.jump
    THEN [p EXCEPT !.velocity[2] = IF p.isOnGround /\ ~p.ghostMode THEN jumpStrength ELSE @,
                   !.isJumping = @ \/ (p.isOnGround /\ ~p.ghostMode),
                   !.keys.jump = FALSE]
    ELSE p

\* mutant: the jump is applied without testing the jump key
applyJump_WithoutKey(p) ==
    IF p.isOnGround /\ ~p.ghostMode
    THEN [p EXCEPT !.velocity[2] = jumpStrength, !.isOnGround = FALSE, !.isJumping = TRUE,
                   !.keys.jump = FALSE]
    ELSE [p EXCEPT !.keys.jump = FALSE]

\* the jump branch at the end of updateMovement
applyJump(p) ==
    IF p.keys.jump
    THEN LET p1 == IF p.isOnGround /\ ~p.ghostMode
                   THEN [p EXCEPT !.velocity[2] = jumpStrength,
                                  !.isOnGround = FALSE,
                                  !.isJumping = TRUE]
                   ELSE p
         IN  [p1 EXCEPT !.keys.jump = FALSE]
    ELSE p

\* the speed, forward vector and right vector updateMovement starts from
movementSpeed(p) ==
    IF p.ghostMode THEN ghostMoveSpeed
    ELSE IF p.keys.run THEN (moveSpeed * runSpeedMultiplierTenths) \div 10
    ELSE moveSpeed

forwardVector(p) ==
    VNormalize(IF p.ghostMode THEN p.cameraForward ELSE [p.cameraForward EXCEPT ![2] = 0])

rightVector(forward) == VNormalize(Cross(<<0, U, 0>>, forward))

\* "Calculate movement direction based on input keys"
inputDirection(keys, forward, right) ==
    VAdd(VAdd(IF keys.forward THEN forward ELSE <<0, 0, 0>>,
              IF keys.backward THEN VScale(forward, 0 - 1, 1) ELSE <<0, 0, 0>>),
         VAdd(IF keys.left THEN VScale(right, 0 - 1, 1) ELSE <<0, 0, 0>>,
              IF keys.right THEN right ELSE <<0, 0, 0>>))

\* setHorizontalVelocity leaving the stopping to friction
setHorizontalVelocity_KeepsVelocity(p, direction, normalized, speed) ==
    IF VLength(direction) > 0
    THEN [p EXCEPT !.moveDirection = normalized,
                   !.isMoving = TRUE,
                   !.isRunning = p.keys.run /\ ~p.ghostMode,
                   !.velocity[1] = (normalized[1] * speed) \div U,
                   !.velocity[3] = (normalized[3] * speed) \div U]
    ELSE [p EXCEPT !.moveDirection = direction,
                   !.isMoving = FALSE,
                   !.isRunning = FALSE]

\* "Normalize if moving diagonally" and set the horizontal velocity
setHorizontalVelocity(p, direction, normalized, speed) ==
    IF VLength(direction) > 0
    THEN [p EXCEPT !.moveDirection = normalized,
                   !.isMoving = TRUE,
                   !.isRunning = p.keys.run /\ ~p.ghostMode,
                   !.velocity[1] = (normalized[1] * speed) \div U,
                   !.velocity[3] = (normalized[3] * speed) \div U]
    ELSE [p EXCEPT !.moveDirection = direction,
                   !.isMoving = FALSE,
                   !.isRunning = FALSE,
                   !.velocity[1] = 0,
                   !.velocity[3] = 0]

moveAlong(p, direction) ==
    setHorizontalVelocity(p, direction, VNormalize(direction), movementSpeed(p))

ghostVertical(p) ==
    IF p.ghostMode THEN [p EXCEPT !.velocity[2] = ghostVerticalVelocity(p)] ELSE p

directionFrom(p, forward) == inputDirection(p.keys, forward, rightVector(forward))

updateMovement(p) ==
    applyJump(moveAlong(ghostVertical(p), directionFrom(p, forwardVector(p))))

rayDirections ==
    <<<<1, 0, 0>>, <<0 - 1, 0, 0>>, <<0, 0, 1>>, <<0, 0, 0 - 1>>,
      <<1, 0, 1>>, <<0 - 1, 0, 1>>, <<1, 0, 0 - 1>>, <<0 - 1, 0, 0 - 1>>>>

effectiveRadius == (collisionRadius * 85) \div 100

kneeHeight == 800

\* activeCollisions.some(obj => obj.id === hit.id), then push
trackCollision(p, h, dir) ==
    IF \E i \in DOMAIN p.activeCollisions : p.activeCollisions[i].id = h.id THEN p
    ELSE [p EXCEPT !.activeCollisions =
             Append(@, [id |-> h.id, name |-> h.name, distance |-> Distance(dir, h.t),
                        direction |-> dir])]

\* intersects.length > 0 && intersects[0].distance < limit
HitWithin(h, dir, limit) == h.hit /\ DistanceLess(dir, h.t, limit)

\* one feet-level ray: r is [p, collision]
feetRay(r, dir, h) ==
    IF HitWithin(h, dir, effectiveRadius)
    THEN [p |-> trackCollision(r.p, h, dir), collision |-> TRUE]
    ELSE r

\* the intersections of the i-th feet-level ray
feetHit(p, feetPosition, i) ==
    Raycast(p.collidableObjects, feetPosition, rayDirections[i], effectiveRadius)

\* the loop over rayDirections at feet level, up to the i-th direction
RECURSIVE feetRaysUpTo(_, _, _)
feetRaysUpTo(p, feetPosition, i) ==
    IF i = 0 THEN [p |-> p, collision |-> FALSE]
    ELSE feetRay(feetRaysUpTo(p, feetPosition, i - 1), rayDirections[i],
                 feetHit(p, feetPosition, i))

kneeRaysHit(p, kneePosition) ==
    \E i \in DOMAIN rayDirections :
        HitWithin(Raycast(p.collidableObjects, kneePosition, rayDirections[i], effectiveRadius),
                  rayDirections[i], effectiveRadius)

ceilingResult(p, h) ==
    IF h.hit /\ h.t < playerHeight
    THEN [p |-> trackCollision(p, h, <<0, 1, 0>>), collision |-> TRUE]
    ELSE [p |-> p, collision |-> FALSE]

ceilingRay(p, feetPosition) ==
    ceilingResult(p, Raycast(p.collidableObjects, feetPosition, <<0, 1, 0>>,
                             playerHeight + U \div 10))

\* the knee-level and ceiling checks, made only if no feet-level ray hit
checkAbove(feet, feetPosition) ==
    IF feet.collision THEN feet
    ELSE IF kneeRaysHit(feet.p, [feetPosition EXCEPT ![2] = @ + kneeHeight])
    THEN [p |-> feet.p, collision |-> TRUE]
    ELSE ceilingRay(feet.p, feetPosition)

checkCollisionAt(p, feetPosition) ==
    checkAbove(feetRaysUpTo(p, feetPosition, Len(rayDirections)), feetPosition)

\* checkCollision(position): [p, collision]; it also records the contacts
checkCollision(p, position) ==
    checkCollisionAt(p, [position EXCEPT ![2] = @ - eyeHeight])

stuckBoost == 80

\* "Both X and Z blocked"
nudgeIfStuck(p) ==
    IF Abs(p.velocity[1]) * 1000 < U /\ Abs(p.velocity[3]) * 1000 < U
    THEN [p EXCEPT !.velocity[2] = Max(@, stuckBoost)]
    ELSE p

\* "Try Z movement only": cz is checkCollision(zOnlyPosition)
slideZ(cz, newPosition) ==
    IF ~cz.collision
    THEN [cz.p EXCEPT !.position[3] = newPosition[3], !.velocity[1] = @ \div 2]
    ELSE nudgeIfStuck(cz.p)

\* mutant: the X-only slide commits the blocked z displacement as well
slideX_CommitsBoth(cx, currentPosition, newPosition) ==
    IF ~cx.collision
    THEN [cx.p EXCEPT !.position[1] = newPosition[1], !.position[3] = newPosition[3],
                      !.velocity[3] = @ \div 2]
    ELSE slideZ(checkCollision(cx.p, [currentPosition EXCEPT ![3] = newPosition[3]]), newPosition)

\* "Try X movement only": cx is checkCollision(xOnlyPosition)
slideX(cx, currentPosition, newPosition) ==
    IF ~cx.collision
    THEN [cx.p EXCEPT !.position[1] = newPosition[1], !.velocity[3] = @ \div 2]
    ELSE slideZ(checkCollision(cx.p, [currentPosition EXCEPT ![3] = newPosition[3]]), newPosition)

handleWallSliding(p, currentPosition, newPosition) ==
    slideX(checkCollision(p, [currentPosition EXCEPT ![1] = newPosition[1]]),
           currentPosition, newPosition)

\* "Path is blocked, try stepping up": c2 is checkCollision(stepUpPosition)
stepUp(c2, currentPosition, newPosition) ==
    IF ~c2.collision
    THEN [c2.p EXCEPT !.position[1] = newPosition[1],
                      !.position[3] = newPosition[3],
                      !.position[2] = @ + stepHeight]
    ELSE handleWallSliding(c2.p, currentPosition, newPosition)

\* "First try moving in both X and Z": c1 is checkCollision(horizontalPosition)
moveDirectly(c1, currentPosition, newPosition) ==
    IF ~c1.collision
    THEN [c1.p EXCEPT !.position[1] = newPosition[1], !.position[3] = newPosition[3]]
    ELSE stepUp(checkCollision(c1.p, [currentPosition EXCEPT ![1] = newPosition[1],
                                                             ![3] = newPosition[3],
                                                             ![2] = @ + stepHeight]),
                currentPosition, newPosition)

handleHorizontalMovement(p, newPosition) ==
    moveDirectly(checkCollision(p, [p.position EXCEPT ![1] = newPosition[1],
                                                      ![3] = newPosition[3]]),
                 p.position, newPosition)

groundRayStart == eyeHeight - U \div 10

groundRayFar == U

groundNear == U \div 5

\* v.projectOnVector(normal), with scalar = v.normal / normal.normal
projectOnVector(normal, scalar, denominator) ==
    IF denominator = 0 THEN <<0, 0, 0>>
    ELSE <<(normal[1] * scalar) \div denominator,
           (normal[2] * scalar) \div denominator,
           (normal[3] * scalar) \div denominator>>

\* (0, -1, 0).projectOnPlane(normal).normalize().multiplyScalar(0.03 * (1 - slope))
slideDirection(normal, slope) ==
    VScale(VNormalize(VSub(<<0, 0 - U, 0>>,
                           projectOnVector(normal, Dot(<<0, 0 - U, 0>>, normal) \div U,
                                           Dot(normal, normal) \div U))),
           3 * (U - slope), 100 * U)

\* the three-way branch of checkGroundCollision on the slope of the ground
groundResponse(p, slope, heightDiff, normal) ==
    IF slope * 10 >= slopeLimitTenths * U
    THEN [p EXCEPT !.velocity[2] = 0, !.isOnGround = TRUE, !.isJumping = FALSE]
    ELSE IF heightDiff <= stepHeight /\ p.isMoving
    THEN [p EXCEPT !.velocity[2] = heightDiff \div 10, !.isOnGround = TRUE, !.isJumping = FALSE]
    ELSE IF p.isOnGround
    THEN [p EXCEPT !.velocity = VAdd(@, slideDirection(normal, slope))]
    ELSE p

\* "If we're very close to the ground or falling onto it"
landOn(p, h) ==
    [trackCollision(groundResponse([p EXCEPT !.position[2] = h.point[2] + eyeHeight],
                                   h.normal[2], Abs(h.point[2] - p.lastGroundY), h.normal),
                    h, <<0, 0 - 1, 0>>)
        EXCEPT !.lastGroundY = h.point[2]]

\* the result of the downward ray: h is intersects[0], if any
groundRayResult(p, h) ==
    IF h.hit
    THEN IF h.t < groundNear \/ p.velocity[2] <= 0 THEN landOn(p, h) ELSE p
    ELSE IF p.isOnGround /\ p.velocity[2] <= 0
         THEN [p EXCEPT !.isOnGround = FALSE]
         ELSE p

checkGroundCollision(p) ==
    groundRayResult(p, Raycast(p.collidableObjects,
                               [p.position EXCEPT ![2] = @ - groundRayStart],
                               <<0, 0 - 1, 0>>, groundRayFar))

\* the friction and snap-to-zero at the end of updatePhysics
snapToZero(f) == IF Abs(f) * 10000 < 5 * U THEN 0 ELSE f

applyFriction(v) == snapToZero((v * frictionPercent) \div 100)

\* "We've hit a ceiling": c is checkCollision(floorPosition)
hitCeiling(c, floorY) ==
    [c.p EXCEPT !.velocity[2] = IF c.collision /\ @ > 0 THEN 0 ELSE @,
                !.position[2] = floorY]

\* mutant: the landing leaves the player flagged as in the air
resolveVerticalAt_StaysAirborne(p, floorY) ==
    IF floorY <= eyeHeight /\ p.velocity[2] <= 0
    THEN [p EXCEPT !.velocity[2] = 0,
                   !.position[2] = eyeHeight,
                   !.isJumping = FALSE]
    ELSE hitCeiling(checkCollision(p, [p.position EXCEPT ![2] = floorY]), floorY)

\* the landing / ceiling branch of updatePhysics
resolveVerticalAt(p, floorY) ==
    IF floorY <= eyeHeight /\ p.velocity[2] <= 0
    THEN [p EXCEPT !.velocity[2] = 0,
                   !.position[2] = eyeHeight,
                   !.isOnGround = TRUE,
                   !.isJumping = FALSE]
    ELSE hitCeiling(checkCollision(p, [p.position EXCEPT ![2] = floorY]), floorY)

resolveVertical(p, newPosition) == resolveVerticalAt(p, Max(0, newPosition[2]))

frictionStep(p) ==
    [p EXCEPT !.velocity[1] = applyFriction(@), !.velocity[3] = applyFriction(@)]

\* "Apply gravity"
applyGravity(p) ==
    IF ~p.isOnGround THEN [p EXCEPT !.velocity[2] = @ - gravity] ELSE p

\* the collision steps, for the position proposed before the ground check
moveTo(p, newPosition) ==
    frictionStep(resolveVertical(handleHorizontalMovement(p, newPosition), newPosition))

physicsFrom(p) == moveTo(checkGroundCollision(p), VAdd(p.position, p.velocity))

\* mutant: the ghost keeps the floor clamp of the normal mode
updatePhysics_GhostClamped(p) ==
    IF p.ghostMode
    THEN [p EXCEPT !.position = [VAdd(@, p.velocity) EXCEPT ![2] = Max(0, @)]]
    ELSE physicsFrom(applyGravity([p EXCEPT !.activeCollisions = <<>>]))

updatePhysics(p) ==
    IF p.ghostMode
    THEN [p EXCEPT !.position = VAdd(@, p.velocity)]
    ELSE physicsFrom(applyGravity([p EXCEPT !.activeCollisions = <<>>]))

updateMesh(p) ==
    [p EXCEPT !.mesh = <<p.position[1],
                         p.position[2] - eyeHeight + playerHeight \div 2,
                         p.position[3]>>]

\* mutant: the run key stays down when stamina runs out
stopRunningIfDepleted_KeepsRunKey(p) == p

\* "Stop running if stamina is depleted"
stopRunningIfDepleted(p) ==
    IF p.bureaucraticStamina <= 0 THEN [p EXCEPT !.keys.run = FALSE] ELSE p

\* "Drain stamina while running"
drainStamina(p) ==
    IF p.isRunning
    THEN stopRunningIfDepleted([p EXCEPT !.bureaucraticStamina = Max(0, @ - drainRate)])
    ELSE p

\* "Regenerate stamina while not running"
regenerateStamina(p) ==
    IF ~p.isRunning /\ p.bureaucraticStamina < staminaMax
    THEN [p EXCEPT !.bureaucraticStamina = Min(staminaMax, @ + regenRate)]
    ELSE p

updateStamina(p) == regenerateStamina(drainStamina(p))

\* "Only update stamina in normal mode"
staminaStep(p) == IF ~p.ghostMode THEN updateStamina(p) ELSE p

\* Player.update()
playerUpdate(p) == staminaStep(updateMesh(updatePhysics(updateMovement(p))))

playerRanks == <<"Intern", "Clerk", "Department Head">>

\* Player.promote()
promote(p) ==
    LET currentIndex == RankIndex(playerRanks, p.careerRank)
    IN  IF currentIndex < Len(playerRanks) - 1
        THEN [p EXCEPT !.careerRank = playerRanks[currentIndex + 2],
                       !.bureaucraticStamina = staminaMax,
                       !.influence = @ + promotionInfluence]
        ELSE p

\* Player.throwDocument(documentType)
playerThrowDocument(p) ==
    IF p.bureaucraticStamina >= documentCost
    THEN [p EXCEPT !.bureaucraticStamina = @ - documentCost]
    ELSE p

\* Player.useStamp(stampType)
playerUseStamp(p) ==
    IF p.bureaucraticStamina >= stampCost
    THEN [p EXCEPT !.bureaucraticStamina = @ - stampCost]
    ELSE p

-----------------------------------------------------------------------------
(* Office: the nodes of a map, the classifier and the list of collidables *)

\* Vector3.applyQuaternion for a mesh with rotation.x = turns * PI / 2
RotateX(v, turns) ==
    <<v[1],
      v[2] * (IF turns = 0 THEN 1 ELSE IF Abs(turns) = 2 THEN 0 - 1 ELSE 0)
        - v[3] * (IF turns = 1 THEN 1 ELSE IF turns = 0 - 1 THEN 0 - 1 ELSE 0),
      v[2] * (IF turns = 1 THEN 1 ELSE IF turns = 0 - 1 THEN 0 - 1 ELSE 0)
        + v[3] * (IF turns = 0 THEN 1 ELSE IF Abs(turns) = 2 THEN 0 - 1 ELSE 0)>>

\* a mesh with what the classifier reads: geometry.type, rotation.x in quarter
\* turns, geometry.parameters (width, height, depth), position.y, and the
\* size and min.y of Box3.setFromObject
MapNode(mesh, geometryType, turns, parameters, positionY, size, minY) ==
    [id |-> mesh.id, name |-> mesh.name, doubleSided |-> mesh.doubleSided, faces |-> mesh.faces,
     geometryType |-> geometryType, turns |-> turns, parameters |-> parameters,
     positionY |-> positionY, size |-> size, minY |-> minY, isStair |-> FALSE]

\* a mesh with a square THREE.PlaneGeometry at the origin: its normal is
\* (0, 0, 1) turned about x
PlaneNode(id, name, turns, half, doubleSided) ==
    IF RotateX(<<0, 0, 1>>, turns)[2] # 0
    THEN MapNode(PlaneMesh(id, name, 2, 0, RotateX(<<0, 0, 1>>, turns)[2],
                           <<0 - half, 0, 0 - half>>, <<half, 0, half>>, doubleSided),
                 "PlaneGeometry", turns, <<2 * half, 2 * half, 0>>, 0, <<2 * half, 0, 2 * half>>, 0)
    ELSE MapNode(PlaneMesh(id, name, 3, 0, RotateX(<<0, 0, 1>>, turns)[3],
                           <<0 - half, 0 - half, 0>>, <<half, half, 0>>, doubleSided),
                 "PlaneGeometry", turns, <<2 * half, 2 * half, 0>>, 0, <<2 * half, 2 * half, 0>>,
                 0 - half)

\* a mesh with the given geometry and box-shaped bounds of the given size
BoxNode(id, name, geometryType, size, position) ==
    MapNode(BoxMesh(id, name,
                    <<position[1] - size[1] \div 2, position[2] - size[2] \div 2,
                      position[3] - size[3] \div 2>>,
                    <<position[1] + size[1] \div 2, position[2] + size[2] \div 2,
                      position[3] + size[3] \div 2>>),
            geometryType, 0, size, position[2], size, position[2] - size[2] \div 2)

\* `${prefix}_${node.id}`
generatedName(prefix, id) == prefix \o "_" \o ToString(id)

\* the ids of the nodes of the maps, and of the helpers made for them
NodeIds == 201..209 \cup 301..309 \cup 401..409

\* name.includes('Floor'), name.toLowerCase().includes('floor'), over the
\* names that occur; no name includes 'ground'
floorNames ==
    {"Floor", "Fallback_Floor", "Safety_Floor"} \cup {generatedName("Floor", i) : i \in NodeIds}

\* name.toLowerCase().includes('wall')
wallNames ==
    {"Wall", "SideWall", "North_Wall", "South_Wall", "East_Wall", "West_Wall"}
        \cup {generatedName("Wall", i) : i \in NodeIds}

\* name.includes('Stair'), name.toLowerCase().includes('stair'); no name
\* includes 'step' without including 'Stair'
stairNames ==
    {"Stair_Step"} \cup {generatedName("Stair", i) : i \in NodeIds}
        \cup {generatedName("Stair_Helper", i) : i \in NodeIds}

isLikelyFloor(mesh) ==
    IF mesh.geometryType = "" THEN FALSE
    ELSE IF mesh.geometryType = "PlaneGeometry"
    THEN RotateX(<<0, U, 0>>, mesh.turns)[2] * 10 > 7 * U
    ELSE IF mesh.geometryType = "BoxGeometry"
    THEN \/ /\ mesh.parameters[1] > mesh.parameters[2] * 3
            /\ mesh.parameters[3] > mesh.parameters[2] * 3
         \/ Abs(mesh.turns) * 157 > 250
    ELSE \/ mesh.positionY * 2 < U
         \/ mesh.name \in floorNames
         \/ /\ mesh.size[1] > mesh.size[2] * 2
            /\ mesh.size[3] > mesh.size[2] * 2
            /\ mesh.minY * 2 < U

isLikelyWall(mesh) ==
    IF mesh.geometryType = "" THEN FALSE
    ELSE IF mesh.geometryType = "PlaneGeometry"
    THEN Abs(RotateX(<<0, 0, U>>, mesh.turns)[2]) * 10 < 3 * U
    ELSE IF mesh.geometryType = "BoxGeometry"
    THEN /\ mesh.parameters[2] * 2 > mesh.parameters[1] * 3
         /\ mesh.parameters[2] * 2 > mesh.parameters[3] * 3
    ELSE \/ mesh.name \in wallNames
         \/ /\ mesh.size[2] * 2 > mesh.size[1] * 3
            /\ mesh.size[2] * 2 > mesh.size[3] * 3

isLikelyStair(mesh) ==
    IF mesh.geometryType = "" THEN FALSE
    ELSE \/ mesh.name \in stairNames
         \/ /\ (mesh.size[1] * 2 > U \/ mesh.size[3] * 2 > U)
            /\ mesh.size[2] * 20 > U /\ mesh.size[2] * 2 < U
            /\ mesh.minY * 20 > U /\ mesh.minY * 2 < 3 * U

\* the name processMapColliders leaves a node with
nodeName(node) ==
    IF node.name # "" THEN node.name
    ELSE IF isLikelyFloor(node) THEN generatedName("Floor", node.id)
    ELSE IF isLikelyWall(node) THEN generatedName("Wall", node.id)
    ELSE IF isLikelyStair(node) THEN generatedName("Stair", node.id)
    ELSE generatedName("Map_Mesh", node.id)

markStair(node) == [node EXCEPT !.isStair = node.name \in stairNames \/ isLikelyStair(node)]

\* the body of model.traverse for one mesh: name it, then mark it
processNode(node) == markStair([node EXCEPT !.name = nodeName(node)])

\* the number of unnamed nodes counted as floors
floorCount(model) == Cardinality({i \in DOMAIN model : model[i].name = "" /\ isLikelyFloor(model[i])})

officeWidth == 30 * U
officeLength == 30 * U
officeHeight == (25 * U) \div 10

\* Office.createFallbackFloor(): an invisible plane of 100 x 100 facing up
FallbackFloor == PlaneNode(110, "Fallback_Floor", 0 - 1, 50 * U, FALSE)

\* Office.addEntranceRamps(): four boxes of 3 x 0.1 x 2 at y = 0.05 (their
\* raised front edge is left out of the faces)
entranceRamp(id, name, x, z) ==
    BoxNode(id, name, "BoxGeometry", <<3 * U, U \div 10, 2 * U>>, <<x, U \div 20, z>>)

addEntranceRamps(o) ==
    [o EXCEPT !.collidables = @ \o <<entranceRamp(111, "Entrance_Ramp_0_10", 0, 10 * U),
                                     entranceRamp(112, "Entrance_Ramp_0_-10", 0, 0 - 10 * U),
                                     entranceRamp(113, "Entrance_Ramp_10_0", 10 * U, 0),
                                     entranceRamp(114, "Entrance_Ramp_-10_0", 0 - 10 * U, 0)>>,
                !.objects = @ \cup {"Entrance_Ramp_0_10", "Entrance_Ramp_0_-10",
                                     "Entrance_Ramp_10_0", "Entrance_Ramp_-10_0"},
                !.scene = @ \cup {"Entrance_Ramp_0_10", "Entrance_Ramp_0_-10",
                                   "Entrance_Ramp_10_0", "Entrance_Ramp_-10_0"}]

createFallbackFloor(o) ==
    addEntranceRamps([o EXCEPT !.collidables = Append(@, FallbackFloor),
                               !.objects = @ \cup {"Fallback_Floor"},
                               !.scene = @ \cup {"Fallback_Floor"}])

\* the invisible box Office.processStairs() makes for a stair
stairHelper(stair) ==
    BoxNode(stair.id + 100, generatedName("Stair_Helper", stair.id), "BoxGeometry",
            <<stair.size[1], (stair.size[2] * 5) \div 100, stair.size[3]>>,
            <<0, stair.positionY + (stair.size[2] * 2) \div 100, 0>>)

\* the loop of processStairs over the stairs found in the list as it was
RECURSIVE processStairsFrom(_, _, _)
processStairsFrom(o, found, i) ==
    IF i > Len(found) THEN o
    ELSE processStairsFrom(
             IF found[i].name \in stairNames \/ found[i].isStair \/ isLikelyStair(found[i])
             THEN [o EXCEPT !.collidables = Append(@, stairHelper(found[i])),
                            !.scene = @ \cup {stairHelper(found[i]).name}]
             ELSE o,
             found, i + 1)

processStairs(o) == processStairsFrom(o, o.collidables, 1)

\* Office.createFloorNavMesh(): nothing but processStairs, and only when
\* some collidable is a floor by name or by shape
createFloorNavMesh(o) ==
    IF \E i \in DOMAIN o.collidables :
           o.collidables[i].name \in floorNames \/ isLikelyFloor(o.collidables[i])
    THEN processStairs(o)
    ELSE o

\* mutant: no fallback floor
addFallbackFloor_Never(o, count) == o

addFallbackFloor(o, count) == IF count = 0 THEN createFallbackFloor(o) ELSE o

processMapColliders(o, model) ==
    createFloorNavMesh(
        addFallbackFloor([o EXCEPT !.collidables = @ \o [i \in DOMAIN model |-> processNode(model[i])]],
                         floorCount(model)))

\* Office.createWall(): a box 0.1 thick; the east and west walls are turned
\* by a quarter about y
createWall(id, name, width, depth, x, z) ==
    BoxNode(id, name, "BoxGeometry", <<width, officeHeight, depth>>, <<x, officeHeight \div 2, z>>)

createOuterWalls(o) ==
    [o EXCEPT !.collidables =
                  @ \o <<createWall(121, "North_Wall", officeWidth, U \div 10, 0, 0 - officeLength \div 2),
                         createWall(122, "South_Wall", officeWidth, U \div 10, 0, officeLength \div 2),
                         createWall(123, "East_Wall", U \div 10, officeLength, officeWidth \div 2, 0),
                         createWall(124, "West_Wall", U \div 10, officeLength, 0 - officeWidth \div 2, 0)>>,
                !.objects = @ \cup {"North_Wall", "South_Wall", "East_Wall", "West_Wall"},
                !.scene = @ \cup {"North_Wall", "South_Wall", "East_Wall", "West_Wall"}]

\* Office.createFloor() and createCeiling() add their meshes to the scene
\* and to objects only; objects holds the names of the meshes in this.objects,
\* scene the names of the meshes the office made and added to this.scene
createFloor(o) == [o EXCEPT !.objects = @ \cup {"Floor"}, !.scene = @ \cup {"Floor"}]

createCeiling(o) == [o EXCEPT !.objects = @ \cup {"Ceiling"}, !.scene = @ \cup {"Ceiling"}]

createFallbackEnvironment(o) == createOuterWalls(createCeiling(createFloor(o)))

availableMaps == {"office"}

\* Office.clearCurrentMap(): scene.remove(currentMap) takes the group of the
\* loaded model out of the scene, and the office gets a new, empty array
clearCurrentMap(o) == [o EXCEPT !.collidables = <<>>]

\* Office.loadMap(): the load of a known map is left in flight
loadMap(o, mapId) ==
    IF mapId \notin availableMaps
    THEN createFallbackEnvironment(clearCurrentMap(o))
    ELSE [clearCurrentMap(o) EXCEPT !.pending = Append(@, mapId)]

\* new Office(scene)
OfficeInit ==
    loadMap([collidables |-> <<>>, objects |-> {}, scene |-> {}, currentMap |-> <<>>,
             pending |-> <<>>],
            "office")

-----------------------------------------------------------------------------
(* Game.js *)

\* new Game(): the office with its first load in flight, the player given
\* the array of the office, no safety floor, no listener of switchLevel, no
\* loading message on display
GameInit ==
    [isPaused |-> FALSE, lastTime |-> 0, deltaTime |-> 0,
     office |-> OfficeInit, aliased |-> TRUE, safetyFloor |-> FALSE, listeners |-> <<>>,
     loadingMessage |-> FALSE,
     debugMode |-> FALSE, colliderVisuals |-> FALSE, rooms |-> <<>>]

\* the game once its map has loaded with the given collidable meshes
GameLoaded(collidables) ==
    [GameInit EXCEPT !.office.collidables = collidables, !.office.pending = <<>>]

\* mutant: the tick runs whether the game is paused or not
gameUpdate_IgnoresPause(s) ==
    combatUpdate([s EXCEPT !.player = playerUpdate(s.player)], Undefined)

\* Game.update(): the player's tick, then combat.update() with no argument
gameUpdate(s) ==
    IF s.game.isPaused THEN s
    ELSE combatUpdate([s EXCEPT !.player = playerUpdate(s.player)], Undefined)

resetPlayerPosition(s) ==
    [s EXCEPT !.player = updateMesh([s.player EXCEPT !.position = <<0, eyeHeight, 0>>,
                                                     !.velocity = <<0, 0, 0>>])]

\* mutant: the toggle keeps the vertical velocity
toggleGhostMode_KeepsVelocity(s) == [s EXCEPT !.player.ghostMode = ~@]

toggleGhostMode(s) ==
    [s EXCEPT !.player.ghostMode = ~@, !.player.velocity[2] = 0]

pause(s) == [s EXCEPT !.game.isPaused = TRUE]

resume(s) == [s EXCEPT !.game.isPaused = FALSE, !.game.lastTime = s.now]

deltaTimeCap == 100

\* Game.animate(): one animation frame
animate(s) ==
    gameUpdate([s EXCEPT !.game.deltaTime = Min(s.now - s.game.lastTime, deltaTimeCap),
                         !.game.lastTime = s.now])

Null == [kind |-> "null", val |-> 0]

\* a || b on JavaScript values: b when a is undefined, null, NaN or 0
JsOr(a, b) ==
    IF a.kind \in {"undefined", "null", "NaN"} \/ (a.kind = "number" /\ a.val = 0) THEN b ELSE a

\* a group of the scene: userData.type ("" when absent), userData.roomId,
\* world position (x, z) and the parameters (width, height) of its planes
RoomGroup(type, roomId, position, planes) ==
    [type |-> type, roomId |-> roomId, position |-> position, planes |-> planes]

RECURSIVE largestParameterFrom(_, _, _, _)
largestParameterFrom(planes, k, i, largest) ==
    IF i > Len(planes) THEN largest
    ELSE largestParameterFrom(planes, k, i + 1,
                              IF planes[i][k] > largest THEN planes[i][k] ELSE largest)

fallbackDimension == 10 * U

roomWidth(room) ==
    LET found == largestParameterFrom(room.planes, 1, 1, 0)
    IN  IF found = 0 THEN fallbackDimension ELSE found

roomLength(room) ==
    LET found == largestParameterFrom(room.planes, 2, 1, 0)
    IN  IF found = 0 THEN fallbackDimension ELSE found

withinRoom(room, playerPos) ==
    /\ playerPos[1] >= room.position[1] - roomWidth(room) \div 2
    /\ playerPos[1] <= room.position[1] + roomWidth(room) \div 2
    /\ playerPos[2] >= room.position[2] - roomLength(room) \div 2
    /\ playerPos[2] <= room.position[2] + roomLength(room) \div 2

hallway == [type |-> "hallway", roomId |-> Null]

RECURSIVE detectCurrentRoomFrom(_, _, _)
detectCurrentRoomFrom(rooms, playerPos, i) ==
    IF i > Len(rooms) THEN hallway
    ELSE IF rooms[i].type # "" /\ withinRoom(rooms[i], playerPos)
         THEN [type |-> rooms[i].type, roomId |-> JsOr(rooms[i].roomId, Null)]
         ELSE detectCurrentRoomFrom(rooms, playerPos, i + 1)

\* Game.detectCurrentRoom(playerPos): playerPos is (x, z)
detectCurrentRoom(s, playerPos) == detectCurrentRoomFrom(s.game.rooms, playerPos, 1)

\* the callbacks requestAnimationFrame holds, in the order they were
\* registered: Game.animate (from the constructor), then main.js gameLoop
frameCallbacks == <<"animate", "gameLoop">>

runFrameCallback(s, callback) ==
    IF callback = "animate" THEN animate(s) ELSE gameUpdate(s)

RECURSIVE runFrameCallbacksFrom(_, _)
runFrameCallbacksFrom(s, i) ==
    IF i > Len(frameCallbacks) THEN s
    ELSE runFrameCallbacksFrom(runFrameCallback(s, frameCallbacks[i]), i + 1)

\* one animation frame of the browser: every registered callback runs once
animationFrame(s) == runFrameCallbacksFrom(s, 1)

\* Game.toggleDebugMode(): showColliders() or hideColliders()
toggleDebugMode(s) ==
    [s EXCEPT !.game.debugMode = ~@, !.game.colliderVisuals = ~s.game.debugMode]

\* the keydown listener of Game.bindEventListeners
gameKeyDown(s, code) ==
    CASE code = "F3" -> toggleDebugMode(s)
      [] code = "KeyR" -> resetPlayerPosition(s)
      [] OTHER -> s

\* the keydown listener of main.js
mainKeyDown(s, code) == IF code = "F3" THEN toggleDebugMode(s) ELSE s

\* a keydown event delivered to the listener of the player on document,
\* then to the listeners on window in the order they were added
dispatchKeyDown(s, code) ==
    mainKeyDown(gameKeyDown([s EXCEPT !.player = keyDown(@, code)], code), code)

\* Game.createSafetyFloor(): a double-sided plane of 100 x 100 at y = 0,
\* rotated by +PI/2 about x, so that its normal points down
SafetyFloor == PlaneNode(102, "Safety_Floor", 1, 50 * U, TRUE)

\* player.collidableObjects and office.collidables are one array while
\* game.aliased: what is pushed to one is pushed to the other
syncPlayer(s) ==
    IF s.game.aliased THEN [s EXCEPT !.player.collidableObjects = s.game.office.collidables] ELSE s

syncOffice(s) ==
    IF s.game.aliased THEN [s EXCEPT !.game.office.collidables = s.player.collidableObjects] ELSE s

\* this.player.collidableObjects = this.office.getCollidableObjects()
takeCollidables(s) ==
    [s EXCEPT !.player.collidableObjects = s.game.office.collidables, !.game.aliased = TRUE]

\* collidableObjects.indexOf(this.safetyFloor), from 1, or 0
RECURSIVE safetyFloorIndexFrom(_, _)
safetyFloorIndexFrom(list, i) ==
    IF i > Len(list) THEN 0
    ELSE IF list[i].id = SafetyFloor.id THEN i
    ELSE safetyFloorIndexFrom(list, i + 1)

removeSafetyFloor(s) ==
    IF s.game.safetyFloor
    THEN syncOffice([s EXCEPT !.player.collidableObjects =
                                  IF safetyFloorIndexFrom(@, 1) > 0
                                  THEN Splice(@, safetyFloorIndexFrom(@, 1))
                                  ELSE @,
                              !.game.safetyFloor = FALSE])
    ELSE s

\* the part of createSafetyFloor that follows removeSafetyFloor
addSafetyFloor(s) ==
    syncOffice([s EXCEPT !.player.collidableObjects = Append(@, SafetyFloor),
                         !.game.safetyFloor = TRUE])

createSafetyFloor(s) == addSafetyFloor(removeSafetyFloor(s))

\* Office.switchMap(mapId): loadMap gives the office a new, empty array
switchMap(s, mapId) ==
    [s EXCEPT !.game.office = loadMap(@, mapId), !.game.aliased = FALSE]

\* Game.showLoadingMessage(): the message is put on display and the game
\* is paused while loading
showLoadingMessage(s) == pause([s EXCEPT !.game.loadingMessage = TRUE])

hideLoadingMessage(s) == [s EXCEPT !.game.loadingMessage = FALSE]

switchLevel(s, mapId) ==
    [switchMap(createSafetyFloor(resetPlayerPosition(showLoadingMessage(s))), mapId)
        EXCEPT !.game.listeners = Append(@, mapId)]

\* "Resume the game if it was paused"
resumeIfPaused(s) == IF s.game.isPaused THEN resume(s) ELSE s

\* the listener switchLevel adds for mapId, run on the event of a map
levelLoaded(s, mapId, loaded) ==
    IF loaded = mapId
    THEN resumeIfPaused(hideLoadingMessage(removeSafetyFloor(takeCollidables(s))))
    ELSE s

RECURSIVE levelListenersFrom(_, _, _, _)
levelListenersFrom(s, listeners, i, loaded) ==
    IF i > Len(listeners) THEN s
    ELSE levelListenersFrom(levelLoaded(s, listeners[i], loaded), listeners, i + 1, loaded)

\* document.dispatchEvent(mapLoaded): the listener of bindEventListeners,
\* then those of switchLevel, each of which is removed once it has run
mapLoaded(s, loaded) ==
    [levelListenersFrom(takeCollidables(s), s.game.listeners, 1, loaded)
        EXCEPT !.game.listeners = <<>>]

\* the success callback of loader.load for the i-th load in flight
loadSucceeded(s, i, model) ==
    mapLoaded(syncPlayer([s EXCEPT !.game.office =
                                       processMapColliders([@ EXCEPT !.currentMap = model,
                                                                     !.pending = Splice(@, i)],
                                                           model)]),
              s.game.office.pending[i])

\* the error callback of loader.load for the i-th load in flight
loadFailed(s, i) ==
    syncPlayer([s EXCEPT !.game.office =
                             createFallbackEnvironment([@ EXCEPT !.pending = Splice(@, i)])])

-----------------------------------------------------------------------------
(* Inputs *)

\* where a thrown document can be aimed
Targets == {<<4800, 3840, 6400>>}

\* where a stamp can be placed
StampPositions == {<<0, 0, 0 - U>>}

\* the clock advance between two ticks while effects are live, in ms
SlowFrames == {1000}

\* deltaTime arguments of a direct Combat.update call, in ms
DeltaTimes == {15000}

\* Math.floor(Math.random() * 5)
Randoms == {0, 4}

\* a wall facing the player, one step ahead of the starting position
Wall == PlaneMesh(101, "Wall", 3, 0 - 300, 1, <<0 - 4 * U, 0, 0>>, <<4 * U, 4 * U, 0>>, FALSE)

\* a wall to the side of the starting position (the D key moves towards -x)
SideWall ==
    PlaneMesh(104, "SideWall", 1, 0 - 300, 1, <<0, 0, 0 - 4 * U>>, <<0, 4 * U, 4 * U>>, FALSE)

\* a wall ahead, a wall to the side, and the corner they make
WallWorlds == {<<Wall>>, <<SideWall>>, <<Wall, SideWall>>}

\* a floor of the map, facing up
Floor ==
    PlaneMesh(103, "Floor", 2, 0, 1, <<0 - 50 * U, 0, 0 - 50 * U>>, <<50 * U, 0, 50 * U>>, FALSE)

\* the lists of collidable objects the player can be given
Worlds == {<<Wall>>, <<Wall, SafetyFloor>>, <<Wall, Floor>>}

\* the unnamed and named meshes a map is made of: planes turned about x by
\* 0, -90, +90 and 180 degrees, a column, a lamp, a desk, a block and a floor
\* that has its name
Nodes ==
    <<PlaneNode(201, "", 0, 2 * U, FALSE),
      PlaneNode(202, "", 0 - 1, 2 * U, FALSE),
      PlaneNode(203, "", 1, 2 * U, FALSE),
      PlaneNode(204, "", 2, 2 * U, FALSE),
      BoxNode(205, "", "BoxGeometry", <<U \div 2, 3 * U, U \div 2>>, <<3 * U, (3 * U) \div 2, 0>>),
      BoxNode(206, "", "BufferGeometry", <<U \div 4, U \div 4, U \div 4>>, <<0, 2 * U, 0>>),
      BoxNode(207, "Desk", "BufferGeometry", <<2 * U, U, U>>, <<0, U, 3 * U>>),
      BoxNode(208, "", "BufferGeometry", <<(6 * U) \div 10, (4 * U) \div 10, (6 * U) \div 10>>,
              <<0, (6 * U) \div 10, 0 - 3 * U>>),
      PlaneNode(209, "Floor", 0 - 1, 2 * U, FALSE)>>

\* the scenes a glTF file can hold: up to MaxNodes of the nodes that follow
\* one another
Models ==
    {SubSeq(Nodes, r[1], r[1] + r[2] - 1) :
        r \in {r \in (DOMAIN Nodes) \X (0..MaxNodes) : r[1] + r[2] - 1 <= Len(Nodes)}}

\* the map ids of the level selector, and one that is not in availableMaps
MapIds == {"office", "cigar_room"}

\* the key codes pressed and released
MoveKeys == {"KeyW", "ShiftLeft"}

PlayerKeys == {"KeyW", "Space"}

GhostKeys == {"KeyE", "KeyQ", "Space"}

-----------------------------------------------------------------------------
(* Actions: one per public operation or event handler *)

Commit(s, op, ret) ==
    /\ now' = s.now
    /\ nextId' = s.nextId
    /\ scene' = s.scene
    /\ combat' = s.combat
    /\ player' = s.player
    /\ game' = s.game
    /\ lastOp' = [op |-> op, ret |-> ret]

StartCombat == Commit(startCombat(St), "startCombat", "void")

EndCombat == Commit(endCombat(St), "endCombat", "void")

CommitResult(r, op) == Commit(r.s, op, r.ret)

ThrowDocument ==
    \E target \in Targets :
        /\ nextId <= MaxMeshId
        /\ CommitResult(throwDocument(St, target), "throwDocument")

UseStamp ==
    \E position \in StampPositions :
        /\ nextId <= MaxMeshId
        /\ CommitResult(useStamp(St, position), "useStamp")

\* a direct call of Combat.update(deltaTime) after the clock advanced by d
CombatUpdate ==
    \E d \in SlowFrames, deltaTime \in DeltaTimes :
        /\ now + d <= MaxTime
        /\ combat.activeChallenge.isNull \/ player.bureaucraticStamina > 0 - MinStamina
        /\ Commit(combatUpdate([St EXCEPT !.now = @ + d], Num(deltaTime)), "update", "void")

\* an animation frame after the clock advanced by d
Frame(d) ==
    /\ now + d <= MaxTime
    /\ Commit(animate([St EXCEPT !.now = @ + d]), "animate", "void")

SlowFrame == \E d \in SlowFrames : Frame(d)

CreateChallenge ==
    \E random \in Randoms : Commit(createChallenge(St, random), "createChallenge", "void")

ResolveChallenge ==
    \E success \in BOOLEAN :
        /\ success => player.bureaucracyLevel < MaxLevel
        /\ ~success => player.bureaucraticStamina > 0 - MinStamina
        /\ Commit(resolveChallenge(St, success),
                  IF success THEN "resolveChallengeSuccess" ELSE "resolveChallengeFailure", "void")

\* main.js gameLoop(): Game.update() called directly
GameLoop == Commit(gameUpdate(St), "gameLoop", "void")

\* a tick that leaves the player within the bounds of the model
InBounds(p) ==
    /\ Abs(p.position[1]) <= MaxCoord
    /\ Abs(p.position[3]) <= MaxCoord
    /\ p.position[2] >= 0
    /\ p.position[2] <= MaxHeight

BoundedLoop ==
    /\ InBounds(gameUpdate(St).player)
    /\ GameLoop

\* a tick once stamina has been spent down to the window near depletion
LowStaminaLoop ==
    /\ player.bureaucraticStamina <= MaxTickStamina
    /\ GameLoop

KeyDown(codes) ==
    \E code \in codes : Commit([St EXCEPT !.player = keyDown(@, code)], "keydown", "void")

KeyUp(codes) ==
    \E code \in codes : Commit([St EXCEPT !.player = keyUp(@, code)], "keyup", "void")

MoveKeyDown == KeyDown(MoveKeys)

MoveKeyUp == KeyUp(MoveKeys)

PlayerKeyDown == KeyDown(PlayerKeys)

PlayerKeyUp == KeyUp(PlayerKeys)

SlideKeys == {"KeyW", "KeyD"}

SlideKeyDown == KeyDown(SlideKeys)

SlideKeyUp == KeyUp(SlideKeys)

FlyKeys == {"KeyW", "KeyQ"}

FlyKeyDown == KeyDown(FlyKeys)

FlyKeyUp == KeyUp(FlyKeys)

\* a ghost-mode tick that stays within the wider bounds of flight
InFlight(p) ==
    /\ Abs(p.position[1]) <= MaxFly
    /\ Abs(p.position[3]) <= MaxFly
    /\ p.position[2] >= 0 - MaxFly
    /\ p.position[2] <= MaxHeight

GhostLoop ==
    /\ player.ghostMode
    /\ InFlight(gameUpdate(St).player)
    /\ GameLoop

GhostKeyDown == KeyDown(GhostKeys)

GhostKeyUp == KeyUp(GhostKeys)

\* the 'R' key
ResetPlayerPosition == Commit(resetPlayerPosition(St), "resetPlayerPosition", "void")

ToggleGhostMode == Commit(toggleGhostMode(St), "toggleGhostMode", "void")

Pause == Commit(pause(St), "pause", "void")

Resume == Commit(resume(St), "resume", "void")

PlayerThrowDocument ==
    Commit([St EXCEPT !.player = playerThrowDocument(@)], "Player.throwDocument", "void")

PlayerUseStamp ==
    Commit([St EXCEPT !.player = playerUseStamp(@)], "Player.useStamp", "void")

Promote == Commit([St EXCEPT !.player = promote(@)], "Player.promote", "void")

SwitchLevel ==
    \E mapId \in MapIds :
        /\ Len(game.listeners) < MaxLoads
        /\ Len(game.office.pending) < MaxLoads
        /\ Commit(switchLevel(St, mapId), "switchLevel", "void")

\* the loader calls back for one of the loads in flight, with the scene read
LoadSucceeded ==
    \E i \in DOMAIN game.office.pending, model \in Models :
        Commit(loadSucceeded(St, i, model), "loadSucceeded", "void")

LoadFailed ==
    \E i \in DOMAIN game.office.pending :
        Commit(loadFailed(St, i), "loadFailed", "void")

Init ==
    /\ now = 0
    /\ nextId = 1
    /\ scene = {}
    /\ combat = CombatInit
    /\ player = PlayerInit(<<>>)
    /\ game = GameLoaded(<<>>)
    /\ lastOp = [op |-> "new", ret |-> "void"]

Next ==
    \/ StartCombat
    \/ EndCombat
    \/ ThrowDocument
    \/ UseStamp
    \/ CombatUpdate
    \/ SlowFrame

Spec == Init /\ [][Next]_vars

\* the player in front of a wall: challenges, stamina costs and game ticks
InitWall ==
    /\ now = 0
    /\ nextId = 1
    /\ scene = {}
    /\ combat = CombatInit
    /\ player = PlayerInit(<<Wall>>)
    /\ game = GameLoaded(<<Wall>>)
    /\ lastOp = [op |-> "new", ret |-> "void"]

NextChallenge ==
    \/ StartCombat
    \/ CreateChallenge
    \/ ResolveChallenge
    \/ CombatUpdate
    \/ SlowFrame
    \/ PlayerThrowDocument
    \/ PlayerUseStamp
    \/ Promote

SpecChallenge == InitWall /\ [][NextChallenge]_vars

NextStamina ==
    \/ MoveKeyDown
    \/ MoveKeyUp
    \/ LowStaminaLoop
    \/ PlayerThrowDocument
    \/ Pause
    \/ Resume

SpecStamina == InitWall /\ [][NextStamina]_vars

\* the player in one of the worlds: keys, ticks, ghost mode and reset
InitPlayer ==
    /\ now = 0
    /\ nextId = 1
    /\ scene = {}
    /\ combat = CombatInit
    /\ \E w \in Worlds : player = PlayerInit(w) /\ game = GameLoaded(w)
    /\ lastOp = [op |-> "new", ret |-> "void"]

NextPlayer ==
    \/ PlayerKeyDown
    \/ PlayerKeyUp
    \/ BoundedLoop
    \/ ToggleGhostMode
    \/ ResetPlayerPosition

SpecPlayer == InitPlayer /\ [][NextPlayer]_vars

\* jumping, falling and floating in and out of ghost mode
NextGhost ==
    \/ GhostKeyDown
    \/ GhostKeyUp
    \/ BoundedLoop
    \/ ToggleGhostMode

SpecGhost == InitWall /\ [][NextGhost]_vars

\* walking into a wall, along a wall and into a corner
InitWalls ==
    /\ now = 0
    /\ nextId = 1
    /\ scene = {}
    /\ combat = CombatInit
    /\ \E w \in WallWorlds : player = PlayerInit(w) /\ game = GameLoaded(w)
    /\ lastOp = [op |-> "new", ret |-> "void"]

NextSlide ==
    \/ SlideKeyDown
    \/ SlideKeyUp
    \/ BoundedLoop

SpecSlide == InitWalls /\ [][NextSlide]_vars

\* a stair step of height 0.15 on the floor, ahead of the starting position
stairHeight == (15 * U) \div 100

StairStep ==
    BoxMesh(105, "Stair_Step", <<0 - 4 * U, 0, 0 - 2 * U>>, <<4 * U, stairHeight, 0 - 400>>)

\* Office.processStairs(): the invisible helper box of a stair, 0.05 of its
\* height, centred 0.02 of its height above the centre of the stair
StairHelper ==
    BoxMesh(106, "Stair_Helper_105",
            <<0 - 4 * U, stairHeight \div 2 + (2 * stairHeight) \div 100 - (5 * stairHeight) \div 200, 0 - 2 * U>>,
            <<4 * U, stairHeight \div 2 + (2 * stairHeight) \div 100 + (5 * stairHeight) \div 200, 0 - 400>>)

\* the step as a map provides it, without and with the helper
StairWorlds == {<<Floor, StairStep>>, <<Floor, StairStep, StairHelper>>}

WalkKeys == {"KeyW", "KeyS"}

WalkKeyDown == KeyDown(WalkKeys)

WalkKeyUp == KeyUp(WalkKeys)

\* a tick that leaves the player on the stretch of floor around the step
WalkLoop ==
    /\ Abs(gameUpdate(St).player.position[3]) <= MaxWalk
    /\ GameLoop

InitStair ==
    /\ now = 0
    /\ nextId = 1
    /\ scene = {}
    /\ combat = CombatInit
    /\ \E w \in StairWorlds : player = PlayerInit(w) /\ game = GameLoaded(w)
    /\ lastOp = [op |-> "new", ret |-> "void"]

NextStair ==
    \/ WalkKeyDown
    \/ WalkKeyUp
    \/ WalkLoop

SpecStair == InitStair /\ [][NextStair]_vars

\* a slope of 45 degrees beside the starting position, steeper than slopeLimit
Ramp ==
    SlopeMesh(107, "Ramp", <<0, 0, 100>>, <<0 - 4 * U, 0, 0 - 4 * U>>, <<0 - 200, 5 * U, 100>>)

SlopeKeys == {"KeyD", "KeyA"}

SlopeKeyDown == KeyDown(SlopeKeys)

SlopeKeyUp == KeyUp(SlopeKeys)

InitSlope ==
    /\ now = 0
    /\ nextId = 1
    /\ scene = {}
    /\ combat = CombatInit
    /\ player = PlayerInit(<<Floor, Ramp>>)
    /\ game = GameLoaded(<<Floor, Ramp>>)
    /\ lastOp = [op |-> "new", ret |-> "void"]

NextSlope ==
    \/ SlopeKeyDown
    \/ SlopeKeyUp
    \/ BoundedLoop

SpecSlope == InitSlope /\ [][NextSlope]_vars

\* loading maps: the state after new Game(), with the first load in flight
InitLoad ==
    /\ now = 0
    /\ nextId = 1
    /\ scene = {}
    /\ combat = CombatInit
    /\ player = PlayerInit(OfficeInit.collidables)
    /\ game = GameInit
    /\ lastOp = [op |-> "new", ret |-> "void"]

NextLoad ==
    \/ SwitchLevel
    \/ LoadSucceeded
    \/ LoadFailed

SpecLoad == InitLoad /\ [][NextLoad]_vars

\* pausing and resuming while the player moves and combat is under way
PauseKeys == {"KeyW", "Space"}

PauseKeyDown == KeyDown(PauseKeys)

PauseKeyUp == KeyUp(PauseKeys)

\* a throw while few effects have been created
PauseThrow ==
    /\ nextId <= MaxPauseMeshId
    /\ ThrowDocument

NextPause ==
    \/ PauseKeyDown
    \/ PauseKeyUp
    \/ BoundedLoop
    \/ SlowFrame
    \/ Pause
    \/ Resume
    \/ StartCombat
    \/ PauseThrow
    \/ CreateChallenge

SpecPause == InitWall /\ [][NextPause]_vars

\* animation frames of the browser while the player jumps and combat runs
FrameTimes == {16}

AnimationFrame ==
    \E d \in FrameTimes :
        /\ now + d <= MaxFrameTime
        /\ InBounds(animationFrame([St EXCEPT !.now = @ + d]).player)
        /\ Commit(animationFrame([St EXCEPT !.now = @ + d]), "animationFrame", "void")

FrameKeys == {"Space"}

FrameKeyDown == KeyDown(FrameKeys)

FrameKeyUp == KeyUp(FrameKeys)

NextFrame ==
    \/ FrameKeyDown
    \/ FrameKeyUp
    \/ AnimationFrame
    \/ Pause
    \/ Resume
    \/ StartCombat
    \/ PauseThrow

SpecFrame == InitWall /\ [][NextFrame]_vars

\* key presses delivered to every keydown listener
DebugKeys == {"F3", "KeyR", "KeyW", "KeyS", "Space"}

DispatchKeyDown ==
    \E code \in DebugKeys : Commit(dispatchKeyDown(St, code), "keydown", code)

DebugKeyUp == KeyUp(DebugKeys)

NextDebug ==
    \/ DispatchKeyDown
    \/ DebugKeyUp
    \/ BoundedLoop

SpecDebug == InitWall /\ [][NextDebug]_vars

\* room groups in the scene and queries of the room at a position
RoomGroups ==
    {RoomGroup("office", Num(0), <<0, 0>>, <<>>),
     RoomGroup("meeting", Num(7), <<6 * U, 0>>, << <<4 * U, 2 * U>>, <<2 * U, 6 * U>> >>),
     RoomGroup("archive", Undefined, <<0, 8 * U>>, << <<8 * U, 8 * U>> >>),
     RoomGroup("", Num(3), <<0, 0>>, <<>>)}

RoomLayouts == UNION {[1..n -> RoomGroups] : n \in 0..MaxRooms}

RoomPositions == {<<0, 0>>, <<5 * U, 0>>, <<5 * U + 1, 0>>, <<4 * U, 0>>, <<6 * U, 3 * U>>,
                  <<0, 4 * U>>, <<0, 12 * U>>, <<0 - 20 * U, 0>>}

\* no query of the room has been made yet
NoQuery == [playerPos |-> <<>>, room |-> hallway]

InitRooms ==
    /\ now = 0
    /\ nextId = 1
    /\ scene = {}
    /\ combat = CombatInit
    /\ player = PlayerInit(<<Wall>>)
    /\ \E rooms \in RoomLayouts : game = [GameLoaded(<<Wall>>) EXCEPT !.rooms = rooms]
    /\ lastOp = [op |-> "new", ret |-> NoQuery]

DetectCurrentRoom ==
    \E playerPos \in RoomPositions :
        Commit(St, "detectCurrentRoom",
               [playerPos |-> playerPos, room |-> detectCurrentRoom(St, playerPos)])

NextRooms == DetectCurrentRoom

SpecRooms == InitRooms /\ [][NextRooms]_vars

\* challenges won one after the other, and promotions of the player
WinChallenge ==
    /\ player.bureaucracyLevel < MaxRankLevel
    /\ Commit(resolveChallenge(St, TRUE), "resolveChallengeSuccess", "void")

NextRank ==
    \/ CreateChallenge
    \/ WinChallenge
    \/ Promote

SpecRank == InitWall /\ [][NextRank]_vars

\* a ceiling mesh of a map at the height of the office, facing down
Ceiling ==
    PlaneMesh(108, "Ceiling", 2, officeHeight, 0 - 1,
              <<0 - 50 * U, officeHeight, 0 - 50 * U>>, <<50 * U, officeHeight, 50 * U>>, FALSE)

\* jumping under the ceiling, with no floor mesh
InitCeiling ==
    /\ now = 0
    /\ nextId = 1
    /\ scene = {}
    /\ combat = CombatInit
    /\ player = PlayerInit(<<Ceiling>>)
    /\ game = GameLoaded(<<Ceiling>>)
    /\ lastOp = [op |-> "new", ret |-> "void"]

CeilingKeys == {"Space", "KeyW"}

CeilingKeyDown == KeyDown(CeilingKeys)

CeilingKeyUp == KeyUp(CeilingKeys)

\* a tick that leaves the player near the start and below the ceiling
CeilingLoop ==
    /\ Abs(gameUpdate(St).player.position[3]) <= MaxCeilingWalk
    /\ gameUpdate(St).player.position[2] <= officeHeight
    /\ GameLoop

NextCeiling ==
    \/ CeilingKeyDown
    \/ CeilingKeyUp
    \/ CeilingLoop

SpecCeiling == InitCeiling /\ [][NextCeiling]_vars

\* spending stamina, running and resting in and out of ghost mode
RestLoop ==
    /\ player.bureaucraticStamina <= MaxTickStamina
    /\ Abs(gameUpdate(St).player.position[3]) <= MaxRestWalk
    /\ BoundedLoop

NextRest ==
    \/ MoveKeyDown
    \/ MoveKeyUp
    \/ RestLoop
    \/ PlayerThrowDocument
    \/ ToggleGhostMode

SpecRest == InitWall /\ [][NextRest]_vars

\* standing and jumping where no collidable is registered
JumpKeys == {"Space"}

JumpKeyDown == KeyDown(JumpKeys)

JumpKeyUp == KeyUp(JumpKeys)

NextJump ==
    \/ JumpKeyDown
    \/ JumpKeyUp
    \/ GameLoop

SpecJump == Init /\ [][NextJump]_vars

\* flying through the wall and below the ground in ghost mode
NextFly ==
    \/ FlyKeyDown
    \/ FlyKeyUp
    \/ BoundedLoop
    \/ GhostLoop
    \/ ToggleGhostMode

SpecFly == InitWall /\ [][NextFly]_vars

-----------------------------------------------------------------------------
(* Claims about the combat effect lifecycle *)

Projectiles == {combat.activeProjectiles[i] : i \in DOMAIN combat.activeProjectiles}

Stamps == {combat.activeStamps[i] : i \in DOMAIN combat.activeStamps}

IsCombatTick == lastOp.op \in {"update", "animate"} /\ ~game.isPaused /\ combat.combatActive

\* C1: in every reachable state the number of live projectiles is at most
\* maxProjectiles and the number of live stamps is at most maxStamps.
C1_EffectCountWithinCap ==
    /\ Len(combat.activeProjectiles) <= maxProjectiles
    /\ Len(combat.activeStamps) <= maxStamps

\* a spawn request was refused with the projectiles at their cap
C1_Witness ==
    /\ Len(combat.activeProjectiles) = maxProjectiles
    /\ combat.combatActive
    /\ lastOp = [op |-> "throwDocument", ret |-> "false"]

\* C2: a spawn request made while combat is inactive or with the kind at its
\* cap returns false and leaves the effect lists and the scene unchanged; and
\* an effect only ever appears in the step of a spawn request that returned
\* true (a refused request is not queued).
C2_RejectedSpawnChangesNothing ==
    [][/\ ( \/ /\ lastOp'.op = "throwDocument"
               /\ (~combat.combatActive \/ Len(combat.activeProjectiles) >= maxProjectiles)
            \/ /\ lastOp'.op = "useStamp"
               /\ (~combat.combatActive \/ Len(combat.activeStamps) >= maxStamps) )
          => /\ lastOp'.ret = "false"
             /\ UNCHANGED <<combat, scene>>
       /\ Len(combat'.activeProjectiles) > Len(combat.activeProjectiles)
          => lastOp' = [op |-> "throwDocument", ret |-> "true"]
       /\ Len(combat'.activeStamps) > Len(combat.activeStamps)
          => lastOp' = [op |-> "useStamp", ret |-> "true"]
       /\ ~(scene' \subseteq scene)
          => lastOp'.op \in {"throwDocument", "useStamp"} /\ lastOp'.ret = "true"
      ]_vars

\* a stamp request was refused at the cap, while projectiles still had room
C2_Witness ==
    /\ lastOp = [op |-> "useStamp", ret |-> "false"]
    /\ combat.combatActive
    /\ Len(combat.activeStamps) = maxStamps
    /\ Len(combat.activeProjectiles) < maxProjectiles

\* C3 (as amended): after every Combat.update at clock value t while combat is
\* active, no live projectile has t - creationTime > 2000 ms and no live stamp
\* has t - creationTime > 1000 ms.
C3_ExpiredEffectsRemoved ==
    IsCombatTick =>
        /\ \A p \in Projectiles : now - p.creationTime <= projectileLifetime
        /\ \A st \in Stamps : now - st.creationTime <= stampDuration

\* C3 as claimed: no live effect has elapsed >= its duration after a tick.
C3_Claimed ==
    IsCombatTick =>
        /\ \A p \in Projectiles : now - p.creationTime < projectileLifetime
        /\ \A st \in Stamps : now - st.creationTime < stampDuration

\* a tick has removed an older effect and kept one whose age is exactly 2000 ms
C3_Witness ==
    /\ IsCombatTick
    /\ \E p \in Projectiles : now - p.creationTime = projectileLifetime
    /\ Cardinality(scene) < nextId - 1

\* C4: immediately after endCombat, combat is inactive, both effect lists are
\* empty and no mesh of a previously live effect is left in the scene.
C4_EndCombatClearsEffects ==
    [][lastOp'.op = "endCombat" =>
          /\ ~combat'.combatActive
          /\ combat'.activeProjectiles = <<>>
          /\ combat'.activeStamps = <<>>
          /\ \A e \in Projectiles \cup Stamps : e.id \notin scene'
      ]_vars

\* endCombat ran after five effects had been spawned, before any could expire
C4_Witness ==
    /\ lastOp.op = "endCombat"
    /\ nextId = 6
    /\ now = 0
    /\ scene = {}

\* C5 as claimed: on every tick a surviving projectile keeps its stored
\* direction and moves by projectileSpeed times that direction.
C5_Claimed ==
    [][IsCombatTick' /\ combat.combatActive =>
          \A p \in Projectiles : \A q \in {combat'.activeProjectiles[i] : i \in DOMAIN combat'.activeProjectiles} :
              q.id = p.id =>
                  /\ q.direction = p.direction
                  /\ q.position = VAdd(p.position, VScale(p.direction, projectileSpeedTenths, 10))
      ]_vars

-----------------------------------------------------------------------------
(* Claims about the challenge countdown and stamina *)

\* C6 as claimed: while a challenge and combat are active, an unpaused
\* game-loop tick decreases timeRemaining by the tick's elapsed time, and the
\* tick at which it reaches zero or below resolves the challenge as a failure
\* (activeChallenge becomes null, stamina is reduced by 10).
C6_Claimed ==
    [][( /\ lastOp'.op = "animate"
         /\ ~game.isPaused
         /\ combat.combatActive
         /\ ~combat.activeChallenge.isNull
         /\ combat.activeChallenge.timeRemaining.kind = "number" )
       => IF combat.activeChallenge.timeRemaining.val - game'.deltaTime <= 0
          THEN /\ combat'.activeChallenge.isNull
               /\ player'.bureaucraticStamina =
                      playerUpdate(player).bureaucraticStamina - challengePenalty
          ELSE /\ ~combat'.activeChallenge.isNull
               /\ combat'.activeChallenge.timeRemaining =
                      Num(combat.activeChallenge.timeRemaining.val - game'.deltaTime)
      ]_vars

\* C7 as claimed: stamina stays within [0, 100] in every reachable state.
C7_Claimed ==
    /\ player.bureaucraticStamina >= 0
    /\ player.bureaucraticStamina <= staminaMax

\* C8: a Normal-mode tick that ends with stamina 0 while the actor was running
\* has cleared the run input; the run input is only set again by a key-down
\* event; and a tick that starts with the run input clear ends with isRunning
\* false. Hence isRunning is false at the end of the following tick unless a
\* run key-down came in between.
C8_DepletedRunStops ==
    [][/\ ( /\ lastOp'.op = "gameLoop"
            /\ ~game.isPaused
            /\ ~player'.ghostMode
            /\ player'.isRunning
            /\ player'.bureaucraticStamina = 0 )
          => ~player'.keys.run
       /\ (~player.keys.run /\ player'.keys.run) => lastOp'.op = "keydown"
       /\ (lastOp'.op = "gameLoop" /\ ~game.isPaused /\ ~player.keys.run)
          => ~player'.isRunning
      ]_vars

\* a tick drained the last stamina of a running player and cleared the run key
C8_Witness ==
    /\ lastOp.op = "gameLoop"
    /\ ~game.isPaused
    /\ player.isRunning
    /\ player.keys.forward
    /\ player.bureaucraticStamina = 0
    /\ ~player.keys.run

-----------------------------------------------------------------------------
(* Claims about jumping, the ground and ghost mode *)

\* C9: isOnGround and isJumping are never both true.
C9_NotGroundedAndJumping == ~(player.isOnGround /\ player.isJumping)

\* the player is past the top of a jump and falling, in normal mode
C9_Witness ==
    /\ lastOp.op = "gameLoop"
    /\ ~player.ghostMode
    /\ player.isJumping
    /\ ~player.isOnGround
    /\ player.velocity[2] < 0
    /\ player.position[2] > eyeHeight

\* C10: toggling ghost mode sets the vertical velocity to 0 at once, and every
\* tick in ghost mode sets it from the float inputs alone (+floatSpeed for
\* float-up, else -floatSpeed for float-down, else 0) and moves the player by
\* exactly that much: gravity is not applied.
C10_GhostStopsFalling ==
    [][/\ lastOp'.op = "toggleGhostMode"
          => /\ player'.velocity[2] = 0
             /\ player'.ghostMode = ~player.ghostMode
       /\ (lastOp'.op = "gameLoop" /\ ~game.isPaused /\ player.ghostMode)
          => /\ player'.velocity[2] = IF player.floatUp THEN 160
                                      ELSE IF player.floatDown THEN 0 - 160
                                      ELSE 0
             /\ player'.position[2] = player.position[2] + player'.velocity[2]
      ]_vars

\* ghost mode was switched on one tick into a fall from the first jump height
C10_Witness ==
    /\ lastOp.op = "toggleGhostMode"
    /\ player.ghostMode
    /\ player.isJumping
    /\ ~player.isOnGround
    /\ player.position[2] = eyeHeight + 544 - 16
    /\ player.velocity[2] = 0

\* C11: a tick in ghost mode moves the player by exactly the velocity it set
\* (no clamp at y = 0, no stop at geometry), records no collision, and leaves
\* isOnGround, isJumping and stamina unchanged.
C11_GhostTickOnlyMoves ==
    [][(lastOp'.op = "gameLoop" /\ ~game.isPaused /\ player.ghostMode)
       => /\ player'.position = VAdd(player.position, player'.velocity)
          /\ player'.activeCollisions = player.activeCollisions
          /\ player'.isOnGround = player.isOnGround
          /\ player'.isJumping = player.isJumping
          /\ player'.bureaucraticStamina = player.bureaucraticStamina
          /\ player'.ghostMode
      ]_vars

\* a ghost tick has taken the player behind the wall and below y = 0
C11_Witness ==
    /\ lastOp.op = "gameLoop"
    /\ player.ghostMode
    /\ player.activeCollisions # <<>>
    /\ player.position[2] < 0
    /\ player.position[3] < 0 - 300

-----------------------------------------------------------------------------
(* Claims about standing, sliding, stepping and stopping *)

HasFloor == \E i \in DOMAIN player.collidableObjects : player.collidableObjects[i].name = "Floor"

AtRest ==
    /\ ~player.ghostMode
    /\ player.velocity = <<0, 0, 0>>
    /\ player.position[2] = eyeHeight
    /\ player.keys = NoKeys

\* C12: a player at rest at eye height over a Floor plane at y = 0, with no
\* input, ends a tick with the same position, zero velocity and isOnGround
\* true (so the same holds after any number of such ticks).
C12_RestingStaysPut ==
    [][(lastOp'.op = "gameLoop" /\ ~game.isPaused /\ HasFloor /\ AtRest)
       => /\ player'.position = player.position
          /\ player'.velocity = <<0, 0, 0>>
          /\ player'.isOnGround
          /\ ~player'.isJumping
          /\ player'.keys = NoKeys
      ]_vars

\* a tick has left a resting player on the floor where it was
C12_Witness ==
    /\ lastOp.op = "gameLoop"
    /\ HasFloor
    /\ AtRest
    /\ player.position = <<0, eyeHeight, 0>>
    /\ player.isOnGround
    /\ player.lastGroundY = 0
    /\ \E i \in DOMAIN player.activeCollisions : player.activeCollisions[i].name = "Floor"

\* the player as handleHorizontalMovement finds it in a normal-mode tick, and
\* the position updatePhysics proposes
BeforeMove(p) == checkGroundCollision(applyGravity([updateMovement(p) EXCEPT !.activeCollisions = <<>>]))

Proposed(p) == VAdd(p.position, applyGravity(updateMovement(p)).velocity)

BlockedAt(p, position) == checkCollision(p, position).collision

FullyBlocked(p, cur, np) ==
    /\ BlockedAt(p, [cur EXCEPT ![1] = np[1], ![3] = np[3]])
    /\ BlockedAt(p, [cur EXCEPT ![1] = np[1], ![3] = np[3], ![2] = @ + stepHeight])

SlidOrStayed(p, cur, np, after) ==
    IF ~BlockedAt(p, [cur EXCEPT ![1] = np[1]])
    THEN after[1] = np[1] /\ after[3] = cur[3]
    ELSE IF ~BlockedAt(p, [cur EXCEPT ![3] = np[3]])
    THEN after[1] = cur[1] /\ after[3] = np[3]
    ELSE after[1] = cur[1] /\ after[3] = cur[3]

\* C13: in a normal-mode tick whose full displacement and step-up probe are
\* both blocked, the X-only position is tried first and, if it is free, only
\* x is committed; otherwise the Z-only position is tried and, if it is free,
\* only z is committed; otherwise x and z stay unchanged.
C13_WallSliding ==
    [][(/\ lastOp'.op = "gameLoop" /\ ~game.isPaused /\ ~player.ghostMode
        /\ FullyBlocked(player, BeforeMove(player).position, Proposed(player)))
       => SlidOrStayed(player, BeforeMove(player).position, Proposed(player), player'.position)
      ]_vars

\* walking diagonally into the wall ahead has moved the player sideways only
C13_Witness ==
    /\ lastOp.op = "gameLoop"
    /\ player.keys.forward /\ player.keys.right
    /\ player.position[1] < 0
    /\ player.position[3] = 0
    /\ \E i \in DOMAIN player.activeCollisions : player.activeCollisions[i].name = "Wall"

(***************************************************************************)
(* C14: an actor walking (a movement key held, no jump input) onto a stair *)
(* step of height 0.15, below stepHeight, stands at step top + eye height: *)
(* a tick of walking that ends over the step ends with y about 0.15 above  *)
(* the y of standing on the floor.                                         *)
(***************************************************************************)
OverStep(position) ==
    /\ position[3] <= StairStep.faces[1].hi[3] - collisionRadius
    /\ position[3] >= StairStep.faces[1].lo[3] + collisionRadius

Walking(p) == (p.keys.forward \/ p.keys.backward) /\ ~p.keys.jump /\ ~p.ghostMode

\* "about": within 0.05 of the height
About(y, height) == Abs(y - height) <= (5 * U) \div 100

C14_Claimed ==
    [][(lastOp'.op = "gameLoop" /\ Walking(player) /\ OverStep(player'.position))
       => About(player'.position[2], stairHeight + eyeHeight)]_vars

(***************************************************************************)
(* C15: a grounded actor in normal mode with no movement input held, on    *)
(* ground that is not a slope steeper than slopeLimit, has velocity        *)
(* (0, 0, 0) at the end of the tick; it stays so for as long as the actor  *)
(* stays grounded there with no input.  As claimed, for every grounded     *)
(* actor: the velocity is (0, 0, 0) at the end of one of the next          *)
(* MaxIdleTicks ticks without input.                                       *)
(***************************************************************************)
Idle(p) ==
    /\ ~p.ghostMode
    /\ p.isOnGround
    /\ ~p.keys.forward /\ ~p.keys.backward /\ ~p.keys.left /\ ~p.keys.right
    /\ ~p.keys.jump

\* the ground ray of a standing player hits a tilted face steeper than slopeLimit
SlideSlopeHit(h) ==
    /\ h.hit
    /\ h.normal[2] * 10 < slopeLimitTenths * U
    /\ (h.normal[1] # 0 \/ h.normal[3] # 0)

OnSlideSlope(p) ==
    SlideSlopeHit(Raycast(p.collidableObjects, [p.position EXCEPT ![2] = @ - groundRayStart],
                          <<0, 0 - 1, 0>>, groundRayFar))

\* the velocity is (0, 0, 0) at the end of one of the next n ticks of Player.update
RECURSIVE BecomesStopped(_, _)
BecomesStopped(p, n) ==
    IF n = 0 THEN FALSE
    ELSE \A q \in {playerUpdate(p)} : q.velocity = <<0, 0, 0>> \/ BecomesStopped(q, n - 1)

RegisteredAs(id, name) ==
    \E i \in DOMAIN game.office.collidables :
        game.office.collidables[i].id = id /\ game.office.collidables[i].name = name

UnnamedPlane(node) == node.name = "" /\ node.geometryType = "PlaneGeometry"

FacesUp(node) == node.faces[1].normal = <<0, U, 0>>

IsVertical(node) == node.faces[1].normal[2] = 0

C16_Claimed ==
    lastOp.op = "loadSucceeded"
    => \A i \in DOMAIN game.office.currentMap :
           UnnamedPlane(game.office.currentMap[i])
           => /\ FacesUp(game.office.currentMap[i])
                 => RegisteredAs(game.office.currentMap[i].id,
                                 generatedName("Floor", game.office.currentMap[i].id))
              /\ IsVertical(game.office.currentMap[i])
                 => RegisteredAs(game.office.currentMap[i].id,
                                 generatedName("Wall", game.office.currentMap[i].id))

(***************************************************************************)
(* C17: after processMapColliders has run for a loaded scene, the          *)
(* collidables hold at least one floor mesh: a node of the scene counted   *)
(* as a floor, or the Fallback_Floor, which is there whenever no node was  *)
(* counted as a floor (a scene without meshes included).                   *)
(***************************************************************************)
CountedAsFloor(mesh) ==
    \E j \in DOMAIN game.office.currentMap :
        /\ game.office.currentMap[j].id = mesh.id
        /\ game.office.currentMap[j].name = ""
        /\ isLikelyFloor(game.office.currentMap[j])

HasFallbackFloor ==
    \E i \in DOMAIN game.office.collidables : game.office.collidables[i] = FallbackFloor

PlayerCollidesWith(name) ==
    \E i \in DOMAIN player.collidableObjects : player.collidableObjects[i].name = name

LoadJustFailed ==
    \/ lastOp.op = "loadFailed"
    \/ /\ lastOp.op = "switchLevel"
       /\ game.listeners[Len(game.listeners)] \notin availableMaps

C18_Claimed ==
    LoadJustFailed
    => \A name \in {"Floor", "North_Wall", "South_Wall", "East_Wall", "West_Wall"} :
           PlayerCollidesWith(name)

(***************************************************************************)
(* C19: at every moment while a load is in flight, the first load started  *)
(* by the constructor included, the player's list of collidable objects    *)
(* holds a temporary fallback floor.                                       *)
(***************************************************************************)
C19_Claimed == game.office.pending # <<>> => PlayerCollidesWith("Safety_Floor")

(***************************************************************************)
(* C20: while the game is paused a call of Game.update, direct or from an  *)
(* animation frame, leaves the player (position, velocity, flags, stamina) *)
(* and the combat manager (effect lists, challenge) and the scene as they  *)
(* were; resume changes neither, and the first tick after it is the tick   *)
(* of exactly that state.                                                  *)
(***************************************************************************)
Frozen == player' = player /\ combat' = combat /\ scene' = scene

C20_PausedUpdateChangesNothing ==
    [][/\ (game.isPaused /\ lastOp'.op \in {"gameLoop", "animate"})
          => (Frozen /\ game'.isPaused)
       /\ lastOp'.op = "resume"
          => (Frozen /\ game' = [game EXCEPT !.isPaused = FALSE, !.lastTime = now])
       /\ (lastOp.op = "resume" /\ lastOp'.op = "gameLoop")
          => player' = playerUpdate(player)]_vars

\* a tick while paused, in mid-jump, with a projectile and a challenge
C20_Witness ==
    /\ lastOp.op = "gameLoop"
    /\ game.isPaused
    /\ player.velocity[2] > 0
    /\ player.position[2] > eyeHeight
    /\ combat.activeProjectiles # <<>>
    /\ ~combat.activeChallenge.isNull

(***************************************************************************)
(* C21: an animation frame advances the simulation exactly once: over all  *)
(* registered frame callbacks Player.update runs once and then             *)
(* Combat.update runs once, while the game is not paused.                  *)
(***************************************************************************)
\* the state after one Game.update at the time of the frame
OneUpdate == gameUpdate([St EXCEPT !.now = now'])

C21_Claimed ==
    [][(lastOp'.op = "animationFrame" /\ ~game.isPaused)
       => /\ player' = OneUpdate.player
          /\ combat' = OneUpdate.combat
          /\ scene' = OneUpdate.scene]_vars

(***************************************************************************)
(* C24: after one F3 key-down event has been delivered to all registered   *)
(* listeners, debugMode is the negation of its value before the key press, *)
(* and the collider visualisation is shown exactly when debugMode is on.   *)
(***************************************************************************)
C24_Claimed ==
    [][(lastOp'.op = "keydown" /\ lastOp'.ret = "F3")
       => /\ game'.debugMode = ~game.debugMode
          /\ game'.colliderVisuals = game'.debugMode]_vars

(***************************************************************************)
(* C22: detectCurrentRoom returns the type and the room id of the first    *)
(* room group, in traversal order, whose rectangle (inclusive bounds)      *)
(* contains the position, whatever the id is, the number 0 included; it    *)
(* returns hallway with a null id when no room contains the position; and  *)
(* it changes nothing.                                                     *)
(***************************************************************************)
RoomsAt(playerPos) ==
    {i \in DOMAIN game.rooms : game.rooms[i].type # "" /\ withinRoom(game.rooms[i], playerPos)}

FirstRoomAt(playerPos) ==
    game.rooms[CHOOSE i \in RoomsAt(playerPos) : \A j \in RoomsAt(playerPos) : i <= j]

IdOf(room) == IF room.roomId = Undefined THEN Null ELSE room.roomId

C22_Claimed ==
    [][lastOp'.op = "detectCurrentRoom"
       => /\ IF RoomsAt(lastOp'.ret.playerPos) = {}
             THEN lastOp'.ret.room = hallway
             ELSE /\ lastOp'.ret.room.type = FirstRoomAt(lastOp'.ret.playerPos).type
                  /\ lastOp'.ret.room.roomId = IdOf(FirstRoomAt(lastOp'.ret.playerPos))
          /\ UNCHANGED <<now, nextId, scene, combat, player, game>>]_vars

(***************************************************************************)
(* C23: at the end of every tick, in normal mode and in ghost mode alike,  *)
(* activeCollisions holds only records made by the queries of that tick:   *)
(* it is what the tick builds from an empty list, and it is empty after a  *)
(* tick in ghost mode, where no query is made.                             *)
(***************************************************************************)
BuiltThisTick(p) == playerUpdate([p EXCEPT !.activeCollisions = <<>>]).activeCollisions

C23_Claimed ==
    [][(lastOp'.op = "gameLoop" /\ ~game.isPaused)
       => /\ player'.activeCollisions = BuiltThisTick(player)
          /\ player.ghostMode => player'.activeCollisions = <<>>]_vars

(***************************************************************************)
(* C25: resolving an active challenge as a success adds its reward to      *)
(* influence, raises bureaucracyLevel by 1 and clears the challenge; the   *)
(* career rank changes exactly when the new level is a multiple of 10, and *)
(* then it moves one step up the ladder of ranks, or stays at the top.     *)
(***************************************************************************)
Won == lastOp'.op = "resolveChallengeSuccess" /\ ~combat.activeChallenge.isNull

\* the rank one step above a rank of the ladder, the top rank above itself
OneStepUp(rank, next) ==
    \/ \E i \in 1..(Len(combatRanks) - 1) : combatRanks[i] = rank /\ combatRanks[i + 1] = next
    \/ rank = combatRanks[Len(combatRanks)] /\ next = rank

C25_Claimed ==
    [][Won
       => /\ player'.influence = player.influence + combat.activeChallenge.reward
          /\ player'.bureaucracyLevel = player.bureaucracyLevel + 1
          /\ combat'.activeChallenge.isNull
          /\ IF player'.bureaucracyLevel % 10 = 0
             THEN OneStepUp(player.careerRank, player'.careerRank)
             ELSE player'.careerRank = player.careerRank]_vars

(***************************************************************************)
(* C26: a tick that starts with a jump requested and the player grounded   *)
(* in normal mode ends with the player airborne and jumping, with a        *)
(* positive vertical velocity, with or without a floor mesh beneath.       *)
(***************************************************************************)
JumpRequested(p) == p.keys.jump /\ p.isOnGround /\ ~p.ghostMode

C26_Claimed ==
    [][(lastOp'.op = "gameLoop" /\ ~game.isPaused /\ JumpRequested(player))
       => /\ ~player'.isOnGround
          /\ player'.isJumping
          /\ player'.velocity[2] > 0]_vars

(***************************************************************************)
(* C27: in every tick in normal mode in which the ground ray hits, the     *)
(* landing branch is taken and the player ends the tick grounded, the      *)
(* player's y at the end of the tick is the height of the hit plus         *)
(* eyeHeight: a grounded player is not left hovering above the ground.     *)
(***************************************************************************)
\* the player as checkGroundCollision finds it, and the hit of its ground ray
AtGroundCheck(p) == applyGravity(updateMovement(p))

GroundHit(p) ==
    Raycast(p.collidableObjects, [p.position EXCEPT ![2] = @ - groundRayStart],
            <<0, 0 - 1, 0>>, groundRayFar)

GroundQuerySucceeds(p) ==
    /\ GroundHit(p).hit
    /\ GroundHit(p).t < groundNear \/ AtGroundCheck(p).velocity[2] <= 0

C27_Claimed ==
    [][(/\ lastOp'.op = "gameLoop"
        /\ ~game.isPaused
        /\ ~player.ghostMode
        /\ GroundQuerySucceeds(player)
        /\ player'.isOnGround)
       => player'.position[2] = GroundHit(player).point[2] + eyeHeight]_vars

(***************************************************************************)
(* C28: in a tick in normal mode whose full horizontal displacement is     *)
(* blocked at the current height and free at that height plus stepHeight,  *)
(* the player ends with the new x and z, and with y higher by stepHeight   *)
(* than the y the same tick gives when the displacement is not blocked.    *)
(***************************************************************************)
StepUpCase(p, cur, np) ==
    /\ BlockedAt(p, [cur EXCEPT ![1] = np[1], ![3] = np[3]])
    /\ ~BlockedAt(p, [cur EXCEPT ![1] = np[1], ![3] = np[3], ![2] = @ + stepHeight])

\* the y at the end of the tick when x and z are committed without a step
HeightWithoutStep(p, np) ==
    resolveVertical([p EXCEPT !.position[1] = np[1], !.position[3] = np[3]], np).position[2]

C28_Claimed ==
    [][(/\ lastOp'.op = "gameLoop" /\ ~game.isPaused /\ ~player.ghostMode
        /\ StepUpCase(BeforeMove(player), BeforeMove(player).position, Proposed(player)))
       => /\ player'.position[1] = Proposed(player)[1]
          /\ player'.position[3] = Proposed(player)[3]
          /\ player'.position[2] =
                 HeightWithoutStep(BeforeMove(player), Proposed(player)) + stepHeight]_vars

(***************************************************************************)
(* C29: in a tick in normal mode in which the player moves upward and the  *)
(* collision query at the raised position reports a hit, the player's y    *)
(* does not increase and its vertical velocity is set to 0.                *)
(***************************************************************************)
\* the player after the horizontal step of the tick
BeforeRise(p) == handleHorizontalMovement(BeforeMove(p), Proposed(p))

CeilingBlocks(p) ==
    /\ BeforeRise(p).velocity[2] > 0
    /\ BlockedAt(BeforeRise(p), [BeforeRise(p).position EXCEPT ![2] = Max(0, Proposed(p)[2])])

C29_Claimed ==
    [][(lastOp'.op = "gameLoop" /\ ~game.isPaused /\ ~player.ghostMode /\ CeilingBlocks(player))
       => /\ player'.position[2] <= player.position[2]
          /\ player'.velocity[2] = 0]_vars

(***************************************************************************)
(* C30: a grounded player in normal mode standing with no input on a       *)
(* surface steeper than slopeLimit slides: its x or z is displaced         *)
(* downhill by the tick or by the tick after it, and the tick leaves       *)
(* isOnGround set.                                                         *)
(***************************************************************************)
\* the ground under p falls towards +z, and q lies further down than p
Downhill(p, q) == q.position[3] > p.position[3]

SlidesWithin(p, q) == Downhill(p, q) \/ Downhill(q, playerUpdate(q))

C30_Claimed ==
    (Idle(player) /\ OnSlideSlope(player))
    => /\ SlidesWithin(player, playerUpdate(player))
       /\ playerUpdate(player).isOnGround

(***************************************************************************)
(* C31: a tick in normal mode in which the horizontal velocity is near     *)
(* zero and the full, the step-up, the X-only and the Z-only position are  *)
(* all blocked ends with a vertical velocity of at least 0.05.             *)
(***************************************************************************)
NearZero(v) == Abs(v[1]) * 1000 < U /\ Abs(v[3]) * 1000 < U

Stuck(p, cur, np) ==
    /\ NearZero(p.velocity)
    /\ FullyBlocked(p, cur, np)
    /\ BlockedAt(p, [cur EXCEPT ![1] = np[1]])
    /\ BlockedAt(p, [cur EXCEPT ![3] = np[3]])

C31_Claimed ==
    [][(/\ lastOp'.op = "gameLoop" /\ ~game.isPaused /\ ~player.ghostMode
        /\ Stuck(BeforeMove(player), BeforeMove(player).position, Proposed(player)))
       => player'.velocity[2] >= stuckBoost]_vars

(***************************************************************************)
(* C32: in every normal-mode tick that moves the player the horizontal     *)
(* speed is moveSpeed x runSpeedMultiplier only if the run input is held   *)
(* and stamina is above 0 at the start of the tick, and moveSpeed          *)
(* otherwise, whatever run key-down events came between the ticks.         *)
(***************************************************************************)
HorizontalSpeed(p) == VLength(<<p.velocity[1], 0, p.velocity[3]>>)

RunSpeed == (moveSpeed * runSpeedMultiplierTenths) \div 10

C32_Claimed ==
    [][(/\ lastOp'.op = "gameLoop" /\ ~game.isPaused /\ ~player.ghostMode
        /\ updateMovement(player).isMoving)
       => HorizontalSpeed(updateMovement(player)) =
              IF player.keys.run /\ player.bureaucraticStamina > 0
              THEN RunSpeed ELSE moveSpeed]_vars

(***************************************************************************)
(* C33: a tick that ends with isRunning false and started with stamina     *)
(* below 100 adds the regeneration rate to stamina (capped at 100), in     *)
(* normal and in ghost mode alike; a running tick, which only happens in   *)
(* normal mode, takes the drain rate off (floored at 0).                   *)
(***************************************************************************)
C33_Claimed ==
    [][(lastOp'.op = "gameLoop" /\ ~game.isPaused)
       => IF player'.isRunning
          THEN /\ ~player.ghostMode
               /\ player'.bureaucraticStamina = Max(0, player.bureaucraticStamina - drainRate)
          ELSE player.bureaucraticStamina < staminaMax
               => player'.bureaucraticStamina =
                      Min(staminaMax, player.bureaucraticStamina + regenRate)]_vars

(***************************************************************************)
(* C34: when a load completes and no other load is in flight, the          *)
(* player's collidableObjects holds exactly the meshes made from the model *)
(* of that load, each once: none of an earlier map, none of a load that    *)
(* overlapped it.                                                          *)
(***************************************************************************)
MeshIds(list) == {list[i].id : i \in DOMAIN list}

EachOnce(list) == Cardinality(MeshIds(list)) = Len(list)

\* the registry a load of the model makes when it starts from an empty one
MeshesOf(o, model) ==
    processMapColliders([o EXCEPT !.collidables = <<>>, !.currentMap = model], model).collidables

C34_Claimed ==
    [][(lastOp'.op = "loadSucceeded" /\ game'.office.pending = <<>>)
       => /\ MeshIds(player'.collidableObjects) =
                  MeshIds(MeshesOf(game.office, game'.office.currentMap))
          /\ EachOnce(player'.collidableObjects)]_vars

(***************************************************************************)
(* C35: once switchLevel has cleared the current map, no Stair_Helper mesh *)
(* made for the previous map is left in the collidables of the office or   *)
(* in the scene.                                                           *)
(***************************************************************************)
StairHelperNames == {generatedName("Stair_Helper", i) : i \in NodeIds}

InCollidables(o, names) == \E i \in DOMAIN o.collidables : o.collidables[i].name \in names

C35_Claimed ==
    [][lastOp'.op = "switchLevel"
       => /\ ~InCollidables(game'.office, StairHelperNames)
          /\ game'.office.scene \cap StairHelperNames = {}]_vars

(***************************************************************************)
(* C36: processing a loaded model adds the Fallback_Floor exactly when the *)
(* model holds no floor mesh; it adds none when the model holds a floor    *)
(* mesh, be it unnamed (and named Floor_<id> by the classifier) or named   *)
(* already, such as 'Floor'.                                               *)
(***************************************************************************)
IsFloorMesh(node) ==
    IF node.name = "" THEN isLikelyFloor(node) ELSE node.name \in floorNames

FallbackFloors(o) ==
    Cardinality({i \in DOMAIN o.collidables : o.collidables[i] = FallbackFloor})

C36_Claimed ==
    [][lastOp'.op = "loadSucceeded"
       => (FallbackFloors(game'.office) > FallbackFloors(game.office)
           <=> \A i \in DOMAIN game'.office.currentMap :
                   ~IsFloorMesh(game'.office.currentMap[i]))]_vars

(***************************************************************************)
(* C40: every switchLevel completes its transition: once its load attempt  *)
(* has finished (the load succeeded, the loader failed, or the map id is   *)
(* unknown) and no load is in flight, the game is not paused for loading,  *)
(* the loading message is hidden and the safety floor is removed, also     *)
(* when another switchLevel was issued in between.                         *)
(***************************************************************************)
TransitionComplete ==
    /\ ~game.isPaused
    /\ ~game.loadingMessage
    /\ ~game.safetyFloor

C40_Claimed == game.office.pending = <<>> => TransitionComplete

(***************************************************************************)
(* C37: with no collidable registered, a normal-mode tick that starts      *)
(* grounded at y = eyeHeight with no jump requested ends grounded at       *)
(* y = eyeHeight; a tick of a player in a jump either lands it, grounded   *)
(* at exactly y = eyeHeight, or lowers its vertical velocity, which never  *)
(* falls below -jumpStrength, so that the player is back on the ground     *)
(* after finitely many ticks; and y is never below 0.                      *)
(***************************************************************************)
Landed(p) == p.position[2] = eyeHeight /\ p.isOnGround

C37_OpenGround ==
    /\ [][(lastOp'.op = "gameLoop" /\ ~player.ghostMode)
           => /\ (Landed(player) /\ ~player.keys.jump) => Landed(player')
              /\ player.isJumping
                 => \/ Landed(player') /\ ~player'.isJumping
                    \/ /\ player'.velocity[2] < player.velocity[2]
                       /\ player'.velocity[2] >= 0 - jumpStrength]_vars
    /\ [](player.position[2] >= 0)

\* the player is falling back from a jump and lands with the next tick
C37_Witness ==
    /\ lastOp.op = "gameLoop"
    /\ player.collidableObjects = <<>>
    /\ player.isJumping
    /\ player.velocity[2] < 0
    /\ player.position[2] + player.velocity[2] - gravity <= eyeHeight

(***************************************************************************)
(* C38: over any sequence of Player.promote and Combat.promotePlayer calls *)
(* the career rank never regresses: once it differs from 'Intern' it never *)
(* becomes 'Intern' again, and no call moves it to a rank that stands      *)
(* below the rank held on a ladder that has both.                          *)
(***************************************************************************)
NotBelow(next, rank) ==
    \A ranks \in {playerRanks, combatRanks} :
        (RankIndex(ranks, rank) >= 0 /\ RankIndex(ranks, next) >= 0)
        => RankIndex(ranks, next) >= RankIndex(ranks, rank)

C38_Claimed ==
    [][/\ player.careerRank # "Intern" => player'.careerRank # "Intern"
       /\ NotBelow(player'.careerRank, player.careerRank)]_vars

(***************************************************************************)
(* C39: in every reachable state in which combat is inactive the lists of  *)
(* live projectiles and live stamps are empty and no effect mesh is in the *)
(* scene, so that the early return of Combat.update while inactive never   *)
(* leaves an unexpired effect behind.                                      *)
(***************************************************************************)
C39_NoEffectsWhileInactive ==
    ~combat.combatActive
    => /\ combat.activeProjectiles = <<>>
       /\ combat.activeStamps = <<>>
       /\ scene = {}

\* a spawn request was refused after the combat that had effects was ended
C39_Witness ==
    /\ lastOp = [op |-> "useStamp", ret |-> "false"]
    /\ ~combat.combatActive
    /\ nextId > 2

====
